---- MODULE Spec2Model ----
(***************************************************************************)
(* A state-machine model of S2Builder (src/s2/s2builder.cc) together with  *)
(* the exact predicates it relies on (src/s2/s2predicates.cc) and the      *)
(* edge intersection functions (src/s2/s2edge_crossings.cc).               *)
(*                                                                         *)
(* For the builder, geometry is modelled in the gnomonic plane: a point is *)
(* a pair of integers <<x, y>> standing for the direction (x, y, W) of the *)
(* sphere, and a chord angle is a squared Euclidean length.  Every         *)
(* predicate is the exact-arithmetic branch of the corresponding function  *)
(* of s2predicates.cc evaluated on these directions.  The predicate layer  *)
(* on its own is evaluated on triples <<x, y, z>> of integers as well; a   *)
(* floating-point stage is a stage that may or may not decide.             *)
(*                                                                         *)
(* Spec is the builder, PredSpec one call of a function of the predicate   *)
(* layer, ThreadSpec several threads calling GetIntersection.              *)
(*                                                                         *)
(* Ids (InputVertexId, InputEdgeId, SiteId, layer index) are 0-based as in *)
(* the source; At(s, i) reads element i of a vector.                       *)
(***************************************************************************)
EXTENDS Integers, Sequences, FiniteSets, TLC

\* ------------------------------------------------------------------ bounds
MaxLayers == 2
MaxEdges == 4
MaxForced == 2
MaxLabelOps == 2
MaxBuilds == 2
MaxSites == 10
MaxShapeEdges == 8
MaxCoord == 1
NumThreads == 2
MaxCalls == 2

\* ----------------------------------------------------------------- vectors
At(s, i) == s[i + 1]

Back(s) == s[Len(s)]

PushBack(s, x) == Append(s, x)

PopBack(s) == SubSeq(s, 1, Len(s) - 1)

SetBack(s, x) == [s EXCEPT ![Len(s)] = x]

Range(s) == {s[i] : i \in 1..Len(s)}

Assign(n, x) == [i \in 1..n |-> x]

\* ------------------------------------------------- exact integer arithmetic
Sgn(v) == IF v > 0 THEN 1 ELSE IF v < 0 THEN -1 ELSE 0

Min2(a, b) == IF a < b THEN a ELSE b

Max2(a, b) == IF a > b THEN a ELSE b

\* floor(n / d) for d > 0 and any sign of n
FloorDiv(n, d) == IF n >= 0 THEN n \div d ELSE -((-n + d - 1) \div d)

\* floor(sqrt(n)) and ceil(sqrt(n)) for n >= 0
RECURSIVE SqrtSearch(_, _, _)
SqrtSearch(n, lo, hi) ==
    IF lo >= hi THEN lo
    ELSE LET mid == (lo + hi + 1) \div 2
         IN  IF mid * mid <= n THEN SqrtSearch(n, mid, hi)
             ELSE SqrtSearch(n, lo, mid - 1)

FloorSqrt(n) == SqrtSearch(n, 0, Min2(n, 46340))

CeilFromFloor(n, r) == IF r * r = n THEN r ELSE r + 1

CeilSqrt(n) == CeilFromFloor(n, FloorSqrt(n))

\* ------------------------------------------------------------------ points
\* A point <<x, y>> is the direction (x, y, 1); a point <<x, y, z>> is the
\* direction (x, y, z) itself.  Vec3 gives the coordinates of either.
Vec3(p) == IF Len(p) = 3 THEN p ELSE <<p[1], p[2], 1>>

Sub(a, b) == <<a[1] - b[1], a[2] - b[2]>>

DotProd(a, b) == a[1] * b[1] + a[2] * b[2]

CrossProd2(a, b) == a[1] * b[2] - a[2] * b[1]

\* operator< of Vector3: lexicographic on the coordinates
PointLess(a, b) ==
    \/ a[1] < b[1]
    \/ a[1] = b[1] /\ a[2] < b[2]
    \/ a[1] = b[1] /\ a[2] = b[2] /\ Len(a) = 3 /\ a[3] < b[3]

\* S1ChordAngle(a, b): the squared chord length between two points
ChordAngle(a, b) == DotProd(Sub(a, b), Sub(a, b))

DotProd3(a, b) == a[1] * b[1] + a[2] * b[2] + a[3] * b[3]

CrossProd3(b, c) ==
    << b[2] * c[3] - b[3] * c[2],
       b[3] * c[1] - b[1] * c[3],
       b[1] * c[2] - b[2] * c[1] >>

\* ---------------------------------------------------------------- s2pred
\* The sign of the first non-zero entry of a coefficient list, else 1.
FirstNonZeroSign(coeffs) ==
    IF \E i \in 1..Len(coeffs) : coeffs[i] # 0
    THEN Sgn(coeffs[CHOOSE i \in 1..Len(coeffs) :
                      coeffs[i] # 0 /\ \A j \in 1..(i - 1) : coeffs[j] = 0])
    ELSE 1

\* a < b < c are 3-vectors, b_cross_c = b x c.
SymbolicallyPerturbedSign(a, b, c, b_cross_c) ==
    FirstNonZeroSign(<< b_cross_c[3], b_cross_c[2], b_cross_c[1],
                        c[1] * a[2] - c[2] * a[1], c[1], -c[2],
                        c[3] * a[1] - c[1] * a[3], c[3],
                        a[1] * b[2] - a[2] * b[1], -b[1], b[2], a[1] >>)

\* The three points sorted increasingly, the permutation counted as even.
SortThreeIgnoringParity(a, b, c) ==
    IF PointLess(b, a)
    THEN IF PointLess(c, b) THEN <<c, b, a, 1>>
         ELSE IF PointLess(c, a) THEN <<b, c, a, 1>>
         ELSE <<b, a, c, 1>>
    ELSE IF PointLess(c, a) THEN <<c, a, b, 1>>
         ELSE IF PointLess(c, b) THEN <<a, c, b, 1>>
         ELSE <<a, b, c, 1>>

\* The three points sorted increasingly, with the sign of the permutation.
SortThree(a, b, c) ==
    IF PointLess(b, a)
    THEN IF PointLess(c, b) THEN <<c, b, a, -1>>
         ELSE IF PointLess(c, a) THEN <<b, c, a, 1>>
         ELSE <<b, a, c, -1>>
    ELSE IF PointLess(c, a) THEN <<c, a, b, 1>>
         ELSE IF PointLess(c, b) THEN <<a, c, b, -1>>
         ELSE <<a, b, c, 1>>

\* The sign of the determinant of the sorted points xa < xb < xc, perturbed
\* symbolically when it is zero and perturb is set; bxc = xb x xc.
SortedSign(xa, xb, xc, bxc, det, perturb) ==
    IF det = 0 /\ perturb THEN SymbolicallyPerturbedSign(xa, xb, xc, bxc) ELSE det

SortedCrossSign(xa, xb, xc, bxc, perturb) ==
    SortedSign(xa, xb, xc, bxc, Sgn(DotProd3(xa, bxc)), perturb)

PermutedSign(s, perturb) ==
    s[4] * SortedCrossSign(Vec3(s[1]), Vec3(s[2]), Vec3(s[3]),
                           CrossProd3(Vec3(s[2]), Vec3(s[3])), perturb)

ExactSign(a, b, c, perturb) == PermutedSign(SortThree(a, b, c), perturb)

\* ExactSign applied without looking for equal arguments first.
ExpensiveSignOfAny(a, b, c, perturb) == ExactSign(a, b, c, perturb)

ExpensiveSign(a, b, c, perturb) ==
    IF a = b \/ b = c \/ c = a THEN 0 ELSE ExactSign(a, b, c, perturb)

Sign(a, b, c) == ExpensiveSign(a, b, c, TRUE)

\* A tie-break that looks at the first site only.
SymbolicCompareToTarget(x, a, b) == IF PointLess(a, x) THEN 1 ELSE -1

\* sign(d(x, a) - d(x, b)), ties broken symbolically
SymbolicCompareDistances(x, a, b) ==
    IF PointLess(a, b) THEN 1 ELSE IF PointLess(b, a) THEN -1 ELSE 0

\* ExactCompareDistances from the cosines x.a and x.b of directions that need
\* not have unit length.
CompareCosines(cos_ax, cos_bx, a_norm2, b_norm2) ==
    IF Sgn(cos_ax) # Sgn(cos_bx)
    THEN (IF Sgn(cos_ax) > Sgn(cos_bx) THEN -1 ELSE 1)
    ELSE Sgn(cos_ax) * Sgn(cos_bx * cos_bx * a_norm2 - cos_ax * cos_ax * b_norm2)

ExactCompareDistances(x, a, b) ==
    IF Len(x) = 3
    THEN CompareCosines(DotProd3(x, a), DotProd3(x, b), DotProd3(a, a), DotProd3(b, b))
    ELSE Sgn(ChordAngle(x, a) - ChordAngle(x, b))

CompareDistances(x, a, b) ==
    IF a = b THEN 0
    ELSE LET s == ExactCompareDistances(x, a, b)
         IN  IF s # 0 THEN s ELSE SymbolicCompareDistances(x, a, b)

\* sign(d(x, y) - r), r a chord angle
ExactCompareDistance(x, y, r) == Sgn(ChordAngle(x, y) - r)

CompareDistance(x, y, r) ==
    IF r = 0 /\ x = y THEN 0 ELSE ExactCompareDistance(x, y, r)

\* sign of the cosine of the angle between edges a0a1 and b0b1
ExactCompareEdgeDirections(a0, a1, b0, b1) ==
    Sgn(DotProd(Sub(a1, a0), Sub(b1, b0)))

CompareEdgeDirections(a0, a1, b0, b1) ==
    IF a0 = a1 \/ b0 = b1 THEN 0 ELSE ExactCompareEdgeDirections(a0, a1, b0, b1)

\* sign(d(x, line(a0, a1)) - r)
ExactCompareLineDistance(x, a0, a1, r) ==
    LET sin_d == CrossProd2(Sub(a1, a0), Sub(x, a0))
    IN  Sgn(sin_d * sin_d - r * ChordAngle(a0, a1))

ExactCompareEdgeDistance(x, a0, a1, r) ==
    IF /\ CompareEdgeDirections(a0, a1, a0, x) > 0
       /\ CompareEdgeDirections(a0, a1, x, a1) > 0
    THEN ExactCompareLineDistance(x, a0, a1, r)
    ELSE Min2(CompareDistance(x, a0, r), CompareDistance(x, a1, r))

\* sign(d(x, edge(a0, a1)) - r)
CompareEdgeDistance(x, a0, a1, r) ==
    IF a0 = a1 THEN CompareDistance(x, a0, r)
    ELSE ExactCompareEdgeDistance(x, a0, a1, r)

UnperturbedSign(a, b, c) == ExpensiveSign(a, b, c, FALSE)

\* The sign of nx . Z, where nx is the normal of edge x0x1 and Z the
\* circumcenter of abc oriented so that abc is counter-clockwise: the exact
\* value of |c| dab + |a| dbc + |b| dca, multiplied by abc_sign.
ExactEdgeCircumcenterSignInPlane(x0, x1, a, b, c, abc_sign) ==
    LET na == DotProd(a, a)
        nb == DotProd(b, b)
        nc == DotProd(c, c)
        ux == na * (b[2] - c[2]) + nb * (c[2] - a[2]) + nc * (a[2] - b[2])
        uy == na * (c[1] - b[1]) + nb * (a[1] - c[1]) + nc * (b[1] - a[1])
        d  == 2 * (a[1] * (b[2] - c[2]) + b[1] * (c[2] - a[2]) + c[1] * (a[2] - b[2]))
        dx == Sub(x1, x0)
    IN  abc_sign * Sgn(dx[1] * (uy - d * x0[2]) - dx[2] * (ux - d * x0[1]))

ArePointsLinearlyDependent(x, y) == CrossProd3(x, y) = <<0, 0, 0>>

\* max(-1, min(1, v))
ClampSign(v) == Max2(-1, Min2(1, v))

\* If both sides have the same non-zero sign, the sign after squaring.
SquaredIfTied(sgn, side_sgn, squared) ==
    IF sgn = 0 /\ side_sgn # 0 THEN Sgn(squared) * side_sgn ELSE sgn

\* Inequality (4): 2 |A| |C| dAB dBC > |B|^2 dCA^2 - |C|^2 dAB^2 - |A|^2 dBC^2
CircumcenterInequality4(lhs4_sgn, rhs4, abc2, cab2) ==
    SquaredIfTied(ClampSign(lhs4_sgn - Sgn(rhs4)), lhs4_sgn,
                  4 * abc2 * cab2 - rhs4 * rhs4)

\* Inequality (2): |C| dAB + |A| dBC > -|B| dCA, given the sign of its left side.
CircumcenterInequality2(lhs2_sgn, dab, dbc, dca, abc2, bca2, cab2) ==
    IF ClampSign(lhs2_sgn + Sgn(dca)) = 0 /\ lhs2_sgn # 0
    THEN CircumcenterInequality4(Sgn(dab) * Sgn(dbc), bca2 - cab2 - abc2, abc2, cab2)
           * lhs2_sgn
    ELSE ClampSign(lhs2_sgn + Sgn(dca))

CircumcenterSignOf(a, b, c, dab, dbc, dca) ==
    CircumcenterInequality2(
        SquaredIfTied(ClampSign(Sgn(dab) + Sgn(dbc)), Sgn(dab),
                      DotProd3(c, c) * (dab * dab) - DotProd3(a, a) * (dbc * dbc)),
        dab, dbc, dca,
        DotProd3(a, a) * (dbc * dbc), DotProd3(b, b) * (dca * dca),
        DotProd3(c, c) * (dab * dab))

\* The predicate on points of the sphere, as the exact arithmetic computes it.
ExactEdgeCircumcenterSignOnSphere(nx, a, b, c, abc_sign) ==
    abc_sign * CircumcenterSignOf(a, b, c,
                                  DotProd3(nx, CrossProd3(a, b)),
                                  DotProd3(nx, CrossProd3(b, c)),
                                  DotProd3(nx, CrossProd3(c, a)))

ExactEdgeCircumcenterSign(x0, x1, a, b, c, abc_sign) ==
    IF Len(x0) # 3 THEN ExactEdgeCircumcenterSignInPlane(x0, x1, a, b, c, abc_sign)
    ELSE IF ArePointsLinearlyDependent(x0, x1) THEN 0
    ELSE ExactEdgeCircumcenterSignOnSphere(CrossProd3(x0, x1), a, b, c, abc_sign)

\* The first non-zero of three signs, the last one when all are zero.
FirstNonZeroOf(s1, s2, s3) == IF s1 # 0 THEN s1 ELSE IF s2 # 0 THEN s2 ELSE s3

\* The side of edge x0x1 on which the first of the sorted points of s lies
\* that is not on the line through x0 and x1.
FirstSideSign(x0, x1, s) ==
    FirstNonZeroOf(UnperturbedSign(x0, x1, s[1]), UnperturbedSign(x0, x1, s[2]),
                   UnperturbedSign(x0, x1, s[3]))

SymbolicEdgeCircumcenterSign(x0, x1, a_arg, b_arg, c_arg) ==
    IF a_arg = b_arg \/ b_arg = c_arg \/ c_arg = a_arg THEN 0
    ELSE FirstSideSign(x0, x1, SortThree(a_arg, b_arg, c_arg))

NonZeroOrSymbolic(sign, x0, x1, a, b, c) ==
    IF sign # 0 THEN sign ELSE SymbolicEdgeCircumcenterSign(x0, x1, a, b, c)

EdgeCircumcenterSign(x0, x1, a, b, c) ==
    IF x0 = x1 \/ a = b \/ b = c \/ c = a THEN 0
    ELSE NonZeroOrSymbolic(ExactEdgeCircumcenterSign(x0, x1, a, b, c, Sign(a, b, c)),
                           x0, x1, a, b, c)

\* The decision of ExactVoronoiSiteExclusion from its intermediate values:
\* rhs2 = (b - a).n, sa2 and sb2 the squared half-widths of the coverage
\* intervals of a and b (times n2), lhs3 = sa2 + sb2 - rhs2^2.
ExclusionFromTerms(a, b, rhs2, sa2, sb2, lhs3) ==
    IF rhs2 < 0 THEN "NEITHER"
    ELSE IF sb2 = sa2 THEN "NEITHER"
    ELSE IF lhs3 < 0 THEN "NEITHER"
    ELSE IF lhs3 * lhs3 < 4 * sa2 * sb2 THEN "NEITHER"
    ELSE IF lhs3 * lhs3 = 4 * sa2 * sb2 /\ ((sb2 > sa2) = PointLess(b, a)) THEN "NEITHER"
    ELSE IF sb2 > sa2 THEN "FIRST" ELSE "SECOND"

ExclusionFromWidths(a, b, rhs2, sa2, sb2) ==
    ExclusionFromTerms(a, b, rhs2, sa2, sb2, sa2 + sb2 - rhs2 * rhs2)

ExclusionFromNormal(a, b, n, n2, aDn, bDn, r2) ==
    ExclusionFromWidths(a, b, DotProd(Sub(b, a), n),
                        r2 * n2 - aDn * aDn, r2 * n2 - bDn * bDn)

ExclusionAlong(a, b, x0, n, r2) ==
    ExclusionFromNormal(a, b, n, DotProd(n, n), CrossProd2(n, Sub(a, x0)),
                        CrossProd2(n, Sub(b, x0)), r2)

\* Which of the sites a, b (a closer to x0) has an empty Voronoi region
\* along edge x0x1, for coverage radius r.
ExactVoronoiSiteExclusion(a, b, x0, x1, r2) == ExclusionAlong(a, b, x0, Sub(x1, x0), r2)

\* The floating-point stage: it decides only when its error bounds allow,
\* and is "UNCERTAIN" otherwise.
TriageVoronoiSiteExclusion(a, b, x0, x1, r2, decides) ==
    IF decides THEN ExactVoronoiSiteExclusion(a, b, x0, x1, r2) ELSE "UNCERTAIN"

\* The answer of the double stage alone.
TriageResultOnly(triage, triage_ld, exact) == triage

\* The first stage that is not "UNCERTAIN"; the exact stage is the last.
FirstCertain(triage, triage_ld, exact) ==
    IF triage # "UNCERTAIN" THEN triage
    ELSE IF triage_ld # "UNCERTAIN" THEN triage_ld
    ELSE exact

\* GetVoronoiSiteExclusion when the double and long double stages decide as
\* given by stages = <<decides, decides_ld>>.
VoronoiSiteExclusionCascade(a, b, x0, x1, r, stages) ==
    IF CompareDistances(x1, a, b) < 0 THEN "SECOND"
    ELSE FirstCertain(TriageVoronoiSiteExclusion(a, b, x0, x1, r, stages[1]),
                      TriageVoronoiSiteExclusion(a, b, x0, x1, r, stages[2]),
                      ExactVoronoiSiteExclusion(a, b, x0, x1, r))

\* The value returned is the same whichever stage decides; the builder is
\* evaluated with the exact stage.
GetVoronoiSiteExclusion(a, b, x0, x1, r) ==
    VoronoiSiteExclusionCascade(a, b, x0, x1, r, <<FALSE, FALSE>>)

\* ------------------------------------------------------- s2edge_crossings
\* Vectors of s2edge_crossings.cc are triples; a result stands for its
\* direction, the scaling done to keep it normalizable being positive.
Sub3(a, b) == <<a[1] - b[1], a[2] - b[2], a[3] - b[3]>>

Add3(a, b) == <<a[1] + b[1], a[2] + b[2], a[3] + b[3]>>

Neg3(a) == <<-a[1], -a[2], -a[3]>>

Scale3(k, a) == <<k * a[1], k * a[2], k * a[3]>>

Zero3 == <<0, 0, 0>>

Abs(v) == IF v < 0 THEN -v ELSE v

\* GetStableCrossProd: (a - b) x (a + b), accepted when its norm is at least
\* kMinNorm, which a non-zero result may or may not reach (in_bounds).
StableCrossProd(a, b) == CrossProd3(Sub3(a, b), Add3(a, b))

GetStableCrossProd(a, b, in_bounds) == in_bounds /\ StableCrossProd(a, b) # Zero3

\* Vector3::LargestAbsComponent, 0-based.
LargestAbsComponent(a) ==
    IF Abs(a[1]) > Abs(a[2])
    THEN (IF Abs(a[1]) > Abs(a[3]) THEN 0 ELSE 2)
    ELSE (IF Abs(a[2]) > Abs(a[3]) THEN 1 ELSE 2)

\* S2::Ortho: the cross product of a with a fixed vector that has its
\* component before the largest one of a set to 1 (coordinates in 1/100000).
OrthoAxis(k) == [ <<1200, 530, 457>> EXCEPT ![k + 1] = 100000 ]

Ortho(a) == CrossProd3(a, OrthoAxis((LargestAbsComponent(a) + 2) % 3))

\* A vector parallel to the arguments.
SymbolicCrossProdParallel(a, b) == b

\* a < b are proportional: the first non-zero term of the perturbed product.
SymbolicCrossProdSorted(a, b) ==
    IF b[1] # 0 \/ b[2] # 0 THEN <<-b[2], b[1], 0>>
    ELSE IF b[3] # 0 THEN <<b[3], 0, 0>>
    ELSE IF a[1] # 0 \/ a[2] # 0 THEN <<a[2], -a[1], 0>>
    ELSE <<1, 0, 0>>

SymbolicCrossProd(a, b) ==
    IF PointLess(a, b) THEN SymbolicCrossProdSorted(a, b)
    ELSE Neg3(SymbolicCrossProdSorted(b, a))

ExactOrSymbolic(a, b, result_xf) ==
    IF result_xf # Zero3 THEN result_xf
    ELSE IF PointLess(a, b) THEN SymbolicCrossProd(a, b)
    ELSE Neg3(SymbolicCrossProd(b, a))

ExactCrossProd(a, b) == ExactOrSymbolic(a, b, CrossProd3(a, b))

\* stages = <<in_bounds, in_bounds_ld>> says which floating-point stages
\* reach their error bound.
RobustCrossProd(a, b, stages) ==
    IF GetStableCrossProd(a, b, stages[1]) THEN StableCrossProd(a, b)
    ELSE IF a = b THEN Ortho(a)
    ELSE IF GetStableCrossProd(a, b, stages[2]) THEN StableCrossProd(a, b)
    ELSE ExactCrossProd(a, b)

\* s2pred::OrderedCCW: a, b, c are met in this order turning around o.
CountTrue(p, q, r) ==
    (IF p THEN 1 ELSE 0) + (IF q THEN 1 ELSE 0) + (IF r THEN 1 ELSE 0)

OrderedCCW(a, b, c, o) ==
    CountTrue(Sign(b, o, a) >= 0, Sign(c, o, b) >= 0, Sign(a, o, c) > 0) >= 2

\* S2::CrossingSign: +1 when the edges cross at a point interior to both,
\* 0 when they share a vertex, -1 otherwise.
SameOrientation(acb, bda, cbd, dac) ==
    IF acb # 0 /\ acb = bda /\ cbd = acb /\ dac = acb THEN 1 ELSE -1

CrossingSign(a, b, c, d) ==
    IF a = c \/ a = d \/ b = c \/ b = d THEN 0
    ELSE IF a = b \/ c = d THEN -1
    ELSE SameOrientation(-Sign(a, b, c), Sign(a, b, d), -Sign(c, d, b), Sign(c, d, a))

\* internal::CompareEdges: a total order on edges that does not depend on
\* the direction of either edge.
MinPoint(p, q) == IF PointLess(q, p) THEN q ELSE p

MaxPoint(p, q) == IF PointLess(q, p) THEN p ELSE q

PairLess(pa0, pa1, pb0, pb1) ==
    PointLess(pa0, pb0) \/ (pa0 = pb0 /\ PointLess(pa1, pb1))

CompareEdges(a0, a1, b0, b1) ==
    PairLess(MinPoint(a0, a1), MaxPoint(a0, a1), MinPoint(b0, b1), MaxPoint(b0, b1))

\* GetProjection subtracts from x the endpoint of the edge closer to it.
CloserEndpoint(a0, a1, x0, x1) ==
    IF \/ DotProd3(x0, x0) < DotProd3(x1, x1)
       \/ DotProd3(x0, x0) = DotProd3(x1, x1) /\ PointLess(x0, x1)
    THEN a0 ELSE a1

ClosestEndpoint(x, a0, a1) == CloserEndpoint(a0, a1, Sub3(x, a0), Sub3(x, a1))

GetProjection(x, a_norm, a0, a1) ==
    DotProd3(Sub3(x, ClosestEndpoint(x, a0, a1)), a_norm)

\* What a floating-point result depends on besides its exact value: the
\* method, the edge whose normal was used, and the endpoint subtracted from
\* each projected vertex.  Results that agree on these are the same number.
Intersection(method, x, normal_edge, closest) ==
    [ method |-> method, x |-> x, normal_edge |-> normal_edge, closest |-> closest ]

NoIntersection == Intersection("NONE", Zero3, {}, {})

\* The end of GetIntersectionStableSorted, from the projections of b0 and b1
\* made non-increasing; in_bounds says whether the error bounds are met.
InterpolateSorted(a0, a1, b0, b1, b0_dist, b1_dist, in_bounds) ==
    IF b0_dist - b1_dist <= 0 \/ ~in_bounds THEN NoIntersection
    ELSE IF Sub3(Scale3(b0_dist, b1), Scale3(b1_dist, b0)) = Zero3 THEN NoIntersection
    ELSE Intersection("STABLE", Sub3(Scale3(b0_dist, b1), Scale3(b1_dist, b0)),
                      {a0, a1},
                      { <<b0, ClosestEndpoint(b0, a0, a1)>>,
                        <<b1, ClosestEndpoint(b1, a0, a1)>> })

InterpolateOrdered(a0, a1, b0, b1, b0_dist, b1_dist, in_bounds) ==
    IF b0_dist < b1_dist
    THEN InterpolateSorted(a0, a1, b0, b1, -b0_dist, -b1_dist, in_bounds)
    ELSE InterpolateSorted(a0, a1, b0, b1, b0_dist, b1_dist, in_bounds)

ProjectOnNormal(a0, a1, b0, b1, a_norm, in_bounds) ==
    InterpolateOrdered(a0, a1, b0, b1, GetProjection(b0, a_norm, a0, a1),
                       GetProjection(b1, a_norm, a0, a1), in_bounds)

GetIntersectionStableSorted(a0, a1, b0, b1, in_bounds) ==
    ProjectOnNormal(a0, a1, b0, b1, StableCrossProd(a0, a1), in_bounds)

\* The longer edge gives the normal whatever the ties.
ShorterFirst(a0, a1, b0, b1, a_len2, b_len2) == a_len2 < b_len2

\* Whether GetIntersectionStable exchanges the two edges.
SecondIsLonger(a0, a1, b0, b1, a_len2, b_len2) ==
    a_len2 < b_len2 \/ (a_len2 = b_len2 /\ CompareEdges(a0, a1, b0, b1))

GetIntersectionStable(a0, a1, b0, b1, in_bounds) ==
    IF SecondIsLonger(a0, a1, b0, b1, DotProd3(Sub3(a1, a0), Sub3(a1, a0)),
                      DotProd3(Sub3(b1, b0), Sub3(b1, b0)))
    THEN GetIntersectionStableSorted(b0, b1, a0, a1, in_bounds)
    ELSE GetIntersectionStableSorted(a0, a1, b0, b1, in_bounds)

\* The smaller of x and p when p qualifies.
SmallerIf(qualifies, p, x) == IF qualifies /\ PointLess(p, x) THEN p ELSE x

SymbolicIfZero(norm, p0, p1) == IF norm = Zero3 THEN SymbolicCrossProd(p0, p1) ELSE norm

\* Collinear edges: the smallest endpoint that lies on the other edge.
SmallestSharedEndpoint(a0, a1, b0, b1, a_norm, b_norm) ==
    SmallerIf(OrderedCCW(a0, b1, a1, a_norm), b1,
      SmallerIf(OrderedCCW(a0, b0, a1, a_norm), b0,
        SmallerIf(OrderedCCW(b0, a1, b1, b_norm), a1,
          SmallerIf(OrderedCCW(b0, a0, b1, b_norm), a0, <<10, 10, 10>>))))

ExactFromNormals(a0, a1, b0, b1, a_norm_xf, b_norm_xf, x_xf) ==
    IF x_xf # Zero3 THEN Scale3(Sign(a0, a1, b1), x_xf)
    ELSE SmallestSharedEndpoint(a0, a1, b0, b1, SymbolicIfZero(a_norm_xf, a0, a1),
                                SymbolicIfZero(b_norm_xf, b0, b1))

CrossNormals(a0, a1, b0, b1, a_norm_xf, b_norm_xf) ==
    ExactFromNormals(a0, a1, b0, b1, a_norm_xf, b_norm_xf,
                     CrossProd3(a_norm_xf, b_norm_xf))

GetIntersectionExact(a0, a1, b0, b1) ==
    CrossNormals(a0, a1, b0, b1, CrossProd3(a0, a1), CrossProd3(b0, b1))

StableOrExact(stable, a0, a1, b0, b1) ==
    IF stable.method = "STABLE" THEN stable
    ELSE Intersection("EXACT", GetIntersectionExact(a0, a1, b0, b1), {}, {})

GetIntersection(a0, a1, b0, b1, in_bounds) ==
    StableOrExact(GetIntersectionStable(a0, a1, b0, b1, in_bounds), a0, a1, b0, b1)

\* ------------------------------------------------------------------ state
VARIABLES
    options_,                \* S2Builder::Options given to the constructor
    tracker_,                \* memory tracker client: "ok" or "error" (sticky)
    input_vertices_,         \* vector<S2Point>
    input_edges_,            \* vector<InputEdge>, pairs of InputVertexId
    layers_,                 \* the layers, each a record describing its Build
    layer_options_,          \* GraphOptions of each layer
    layer_begins_,           \* first InputEdgeId of each layer
    layer_is_full_polygon_predicates_,
    label_set_ids_,          \* per input edge, once any label was used
    label_set_lexicon_,      \* IdSetLexicon: sets with more than one label
    label_set_,              \* the current label stack
    label_set_id_,           \* id of the label set of the last edge
    label_set_modified_,
    sites_,                  \* vector<S2Point>
    num_forced_sites_,
    edge_sites_,             \* per input edge, nearby SiteIds by distance
    snapping_needed_,
    error_,                  \* the S2Error object of the caller of Build
    edges_to_resnap,         \* AddExtraSites: edges to snap in the next pass
    edges_to_snap,           \* AddExtraSites: edges left in the current pass
    pc,                      \* position inside Build, "idle" outside
    next_id,                 \* loop index of the running loop of Build
    layer_edges,             \* BuildLayers: snapped edges of each layer
    site_vertices,           \* BuildLayers: per site, the input vertices snapped to it
    input_edge_id_set_lexicon,  \* BuildLayers: sets of more than one InputEdgeId
    graphs,                  \* graphs handed to Layer::Build by this Build
    returned,                \* what the last Build returned
    num_builds,              \* Build calls started so far
    num_label_ops,           \* label calls made so far
    fresh,                   \* label state of a fresh builder given the same calls
    prev,                    \* input and output of the previous Build
    resnapping,              \* the input is the output of the previous Build
    forced_vertices,         \* the points given to ForceVertex for this Build
    tick,                    \* flips with every step of Build
    call,                    \* a call of a function of the predicate layer
    intersection_method_tally_,  \* the global tally pointer and its array
    threads,                 \* threads calling GetIntersection concurrently
    scenario                 \* what the client may pass to the builder

vars == << options_, tracker_, input_vertices_, input_edges_, layers_,
           layer_options_, layer_begins_, layer_is_full_polygon_predicates_,
           label_set_ids_, label_set_lexicon_, label_set_, label_set_id_,
           label_set_modified_, sites_, num_forced_sites_, edge_sites_,
           snapping_needed_, error_, edges_to_resnap, edges_to_snap, pc,
           next_id, layer_edges, site_vertices, input_edge_id_set_lexicon, graphs, returned, num_builds, num_label_ops,
           fresh, prev, resnapping, forced_vertices, tick, call, intersection_method_tally_,
           threads, scenario >>

\* -------------------------------------------------- members set by Init()
site_snap_radius_ca_ == options_.snap_radius

edge_snap_radius_ca_ == options_.snap_radius + options_.intersection_tolerance

snapping_requested_ == edge_snap_radius_ca_ > 0

\* (kMaxEdgeDeviationRatio * edge_snap_radius)^2 with ratio 1.1, rounded up
max_edge_deviation_ == (121 * edge_snap_radius_ca_ + 99) \div 100

\* (max_edge_deviation + min_edge_vertex_separation)^2, rounded up
edge_site_query_radius_ca_ ==
    max_edge_deviation_ + options_.min_edge_vertex_separation
      + CeilSqrt(4 * max_edge_deviation_ * options_.min_edge_vertex_separation)

\* max_edge_deviation > edge_snap_radius + min_edge_vertex_separation
check_all_site_crossings_ ==
    max_edge_deviation_ >
        edge_snap_radius_ca_ + options_.min_edge_vertex_separation
          + FloorSqrt(4 * edge_snap_radius_ca_ * options_.min_edge_vertex_separation)

min_site_separation_ca_ == options_.min_vertex_separation

min_edge_site_separation_ca_ == options_.min_edge_vertex_separation

\* (2 * edge_snap_radius)^2 rounded up past its representation error
max_adjacent_site_separation_ca_ == 4 * edge_snap_radius_ca_ + 1

is_forced(id) == id < num_forced_sites_

\* ------------------------------------------------------------ snap function
\* SnapFunction::SnapPoint: the identity when grid = 0, otherwise the nearest
\* point whose coordinates are multiples of grid.
RoundToGrid(c, grid) == FloorDiv(2 * c + grid, 2 * grid) * grid

SnapPoint(point) ==
    IF options_.grid = 0 THEN point
    ELSE << RoundToGrid(point[1], options_.grid), RoundToGrid(point[2], options_.grid) >>

\* SnapSite: the site, and whether it moved farther than the snap radius.
SnapSite(point) == IF ~snapping_requested_ THEN point ELSE SnapPoint(point)

SnapSiteTooFar(point) ==
    snapping_requested_ /\ ChordAngle(SnapPoint(point), point) > site_snap_radius_ca_

\* --------------------------------------------------------- AddEdgeCrossings
RECURSIVE SetToSeq(_)
SetToSeq(S) ==
    IF S = {} THEN <<>>
    ELSE LET m == CHOOSE x \in S : \A y \in S : x <= y
         IN  <<m>> \o SetToSeq(S \ {m})

\* The point of the plane in the direction of the vector v, on the lattice.
PlanePoint(v) ==
    IF v[3] > 0
    THEN << FloorDiv(2 * v[1] + v[3], 2 * v[3]), FloorDiv(2 * v[2] + v[3], 2 * v[3]) >>
    ELSE << FloorDiv(-2 * v[1] - v[3], -2 * v[3]), FloorDiv(-2 * v[2] - v[3], -2 * v[3]) >>

\* VisitCrossingEdgePairs with CrossingType::INTERIOR: the pairs of input
\* edges that cross at a point interior to both.
CrossingEdgePairs(vertices, edges) ==
    { p \in (0..(Len(edges) - 1)) \X (0..(Len(edges) - 1)) :
        /\ p[1] < p[2]
        /\ CrossingSign(At(vertices, At(edges, p[1])[1]), At(vertices, At(edges, p[1])[2]),
                        At(vertices, At(edges, p[2])[1]), At(vertices, At(edges, p[2])[2])) > 0 }

\* The intersection point of input edges e and f.
CrossingPoint(vertices, edges, e, f) ==
    PlanePoint(GetIntersection(Vec3(At(vertices, At(edges, e)[1])),
                               Vec3(At(vertices, At(edges, e)[2])),
                               Vec3(At(vertices, At(edges, f)[1])),
                               Vec3(At(vertices, At(edges, f)[2])), TRUE).x)

\* An edge-splitting phase that asks for snapping whatever it finds.
WithCrossingsAlways(vertices, needed, new_vertices) ==
    [ input_vertices_ |-> vertices \o new_vertices, snapping_needed_ |-> TRUE ]

\* The vertices and snapping_needed_ after the intersection points found
\* were added.
WithCrossings(vertices, needed, new_vertices) ==
    IF new_vertices = <<>>
    THEN [ input_vertices_ |-> vertices, snapping_needed_ |-> needed ]
    ELSE [ input_vertices_ |-> vertices \o new_vertices, snapping_needed_ |-> TRUE ]

EdgeCrossings(vertices, edges, needed) ==
    LET pairs == SetToSeq({ p[1] * Len(edges) + p[2] :
                              p \in CrossingEdgePairs(vertices, edges) })
    IN  WithCrossings(vertices, needed,
                      [ k \in 1..Len(pairs) |->
                          CrossingPoint(vertices, edges, pairs[k] \div Len(edges),
                                        pairs[k] % Len(edges)) ])

\* ------------------------------------------------------------- ChooseSites
\* S2CellId(point): the cell of the point on a space-filling order
CellId(point) == << FloorDiv(point[1], 2), FloorDiv(point[2], 2) >>

InputVertexKeyLess(a, b) ==
    LET ka == CellId(At(input_vertices_, a))
        kb == CellId(At(input_vertices_, b))
    IN  IF PointLess(ka, kb) THEN TRUE
        ELSE IF PointLess(kb, ka) THEN FALSE
        ELSE IF PointLess(At(input_vertices_, a), At(input_vertices_, b)) THEN TRUE
        ELSE IF PointLess(At(input_vertices_, b), At(input_vertices_, a)) THEN FALSE
        ELSE a < b

\* The input vertex ids in sorted order.
SortInputVertices ==
    SortSeq([i \in 1..Len(input_vertices_) |-> i - 1], InputVertexKeyLess)

\* std::unique on a sorted vector
RECURSIVE Unique(_)
Unique(s) ==
    IF Len(s) <= 1 THEN s
    ELSE IF s[1] = s[2] THEN Unique(Tail(s))
    ELSE <<s[1]>> \o Unique(Tail(s))

\* AddForcedSites: the forced sites, sorted and without duplicates
AddForcedSites(sites) == Unique(SortSeq(sites, PointLess))

\* Sites that merge only with a site at the very same point.
SitesAtSamePoint(site, sites) == { i \in 1..Len(sites) : sites[i] = site }

\* The sites within min_site_separation_ca_ of the snapped vertex "site":
\* those for which ChooseInitialSites clears add_site.
\* A separation test that lets a site at exactly the minimum separation in.
SitesStrictlyCloser(site, sites) ==
    { i \in 1..Len(sites) :
        CompareDistance(site, sites[i], min_site_separation_ca_) < 0 }

SitesTooClose(site, sites) ==
    { i \in 1..Len(sites) :
        CompareDistance(site, sites[i], min_site_separation_ca_) <= 0 }

\* A check that takes an unmoved vertex as the reason to snap.
SnappingNeededWhenUnmoved(needed, site, vertex, moved_to_other_site) ==
    needed \/ site = vertex \/ moved_to_other_site

\* snapping_needed_ after an input vertex was looked at: it is set when the
\* vertex moves when snapped, or merges with a site at another point.
SnappingNeeded(needed, site, vertex, moved_to_other_site) ==
    needed \/ site # vertex \/ moved_to_other_site

\* The sites after the snapped vertex was looked at.
WithSite(sites, site, results) ==
    IF (IF site_snap_radius_ca_ = 0 THEN sites = <<>> \/ site # Back(sites)
        ELSE results = {})
    THEN PushBack(sites, site) ELSE sites

ChooseSnappedSite(st, vertex, site, results) ==
    [ sites_           |-> WithSite(st.sites_, site, results),
      snapping_needed_ |->
          SnappingNeeded(st.snapping_needed_, site, vertex,
                         site_snap_radius_ca_ # 0
                             /\ \E i \in results : site # st.sites_[i]),
      error_           |-> IF SnapSiteTooFar(vertex)
                           THEN "BUILDER_SNAP_RADIUS_TOO_SMALL" ELSE st.error_ ]

\* One iteration of the loop of ChooseInitialSites for the vertex with id v.
\* st has the fields sites_, snapping_needed_ and error_.
ChooseInitialSite(st, v) ==
    ChooseSnappedSite(st, At(input_vertices_, v), SnapSite(At(input_vertices_, v)),
                      SitesTooClose(SnapSite(At(input_vertices_, v)), st.sites_))

RECURSIVE ChooseInitialSitesLoop(_, _, _)
ChooseInitialSitesLoop(st, sorted_keys, k) ==
    IF k > Len(sorted_keys) THEN st
    ELSE ChooseInitialSitesLoop(ChooseInitialSite(st, sorted_keys[k]), sorted_keys, k + 1)

ChooseInitialSites(st) == ChooseInitialSitesLoop(st, SortInputVertices, 1)

\* SortSitesByDistance: order on site ids by distance from x, ties by id
SiteDistanceLess(x, sites, i, j) ==
    IF i = j THEN FALSE
    ELSE LET diff == CompareDistances(x, At(sites, i), At(sites, j))
         IN  IF diff < 0 THEN TRUE ELSE IF diff > 0 THEN FALSE ELSE i < j

SortSitesByDistance(x, sites, ids) ==
    LET Less(i, j) == SiteDistanceLess(x, sites, i, j)
    IN  SortSeq(SetToSeq(ids), Less)

\* The sites within edge_site_query_radius_ca_ of input edge e.
NearbySites(sites, e) ==
    LET v0 == At(input_vertices_, At(input_edges_, e)[1])
        v1 == At(input_vertices_, At(input_edges_, e)[2])
    IN  { id \in 0..(Len(sites) - 1) :
            CompareEdgeDistance(At(sites, id), v0, v1, edge_site_query_radius_ca_) <= 0 }

\* Whether a nearby site of edge e shows that the input is not yet snapped.
SiteTooCloseToEdge(sites, e) ==
    LET v0 == At(input_vertices_, At(input_edges_, e)[1])
        v1 == At(input_vertices_, At(input_edges_, e)[2])
    IN  \E id \in NearbySites(sites, e) :
            /\ At(sites, id) # v0
            /\ At(sites, id) # v1
            /\ CompareEdgeDistance(At(sites, id), v0, v1, min_edge_site_separation_ca_) < 0

\* CollectSiteEdges: st has the fields sites_ and snapping_needed_.
CollectSiteEdges(st) ==
    [ edge_sites_ |->
        [ k \in 1..Len(input_edges_) |->
            SortSitesByDistance(At(input_vertices_, input_edges_[k][1]), st.sites_,
                                NearbySites(st.sites_, k - 1)) ],
      snapping_needed_ |->
        \/ st.snapping_needed_
        \/ \E e \in 0..(Len(input_edges_) - 1) : SiteTooCloseToEdge(st.sites_, e) ]

\* ---------------------------------------------------------------- SnapEdge
\* One test of the inner loop of SnapEdge for the last site b of the chain,
\* the site a before it (when has_a) and the candidate c: "pop" removes b,
\* "drop" rejects c, "keep" ends the loop and adds c.
CircumcenterTest(a, b, c, x, y, xyb) ==
    IF ChordAngle(a, c) >= max_adjacent_site_separation_ca_ THEN "keep"
    ELSE IF Sign(a, b, c) = xyb THEN "keep"
    ELSE IF EdgeCircumcenterSign(x, y, a, b, c) # xyb THEN "keep"
    ELSE "pop"

ExclusionTest(result, a, b, c, x, y, has_a) ==
    IF result = "FIRST" THEN "pop"
    ELSE IF result = "SECOND" THEN "drop"
    ELSE IF ~has_a THEN "keep"
    ELSE CircumcenterTest(a, b, c, x, y, Sign(x, y, b))

SiteTest(a, b, c, x, y, has_a) ==
    IF ChordAngle(b, c) >= max_adjacent_site_separation_ca_ THEN "keep"
    ELSE ExclusionTest(GetVoronoiSiteExclusion(b, c, x, y, edge_snap_radius_ca_),
                       a, b, c, x, y, has_a)

\* The inner loop of SnapEdge: pops the sites of the chain that site c
\* excludes; returns the remaining chain and whether c is to be added.
RECURSIVE SnapEdgePop(_, _, _, _, _)
AfterSiteTest(test, sites, chain, c, x, y) ==
    IF test = "pop" THEN SnapEdgePop(sites, PopBack(chain), c, x, y)
    ELSE [chain |-> chain, add_site_c |-> test = "keep"]

SnapEdgePop(sites, chain, c, x, y) ==
    IF chain = <<>> THEN [chain |-> chain, add_site_c |-> TRUE]
    ELSE AfterSiteTest(SiteTest(At(sites, chain[Max2(Len(chain) - 1, 1)]),
                                At(sites, Back(chain)), c, x, y, Len(chain) >= 2),
                       sites, chain, c, x, y)

\* The chain after candidate k was looked at.
WithCandidate(r, id) == IF r.add_site_c THEN PushBack(r.chain, id) ELSE r.chain

RECURSIVE SnapEdgeLoop(_, _, _, _, _, _)
SnapEdgeLoop(sites, candidates, k, chain, x, y) ==
    IF k > Len(candidates) THEN chain
    ELSE SnapEdgeLoop(
             sites, candidates, k + 1,
             IF CompareEdgeDistance(At(sites, candidates[k]), x, y, edge_snap_radius_ca_) > 0
             THEN chain
             ELSE WithCandidate(SnapEdgePop(sites, chain, At(sites, candidates[k]), x, y),
                                candidates[k]),
             x, y)

\* The chain of SiteIds that input edge e snaps to.
SnapEdge(vertices, edges, sites, esites, needed, e) ==
    IF ~needed THEN << At(edges, e)[1], At(edges, e)[2] >>
    ELSE SnapEdgeLoop(sites, At(esites, e), 1, <<>>,
                      At(vertices, At(edges, e)[1]), At(vertices, At(edges, e)[2]))

\* ------------------------------------------------------- GetSeparationSite
\* m < sqrt(k) for integers m and k >= 0
LessThanSqrt(m, k) == m < 0 \/ m * m < k

\* The nearest integer to c0 + dc * (a + sg * sqrt(k)) / l2
RoundedCoordinate(c0, dc, a, sg, k, l2) ==
    LET m == 2 * c0 * l2 + 2 * dc * a + l2
        n == 4 * dc * dc * k
    IN  IF sg * Sgn(dc) >= 0 THEN FloorDiv(m + FloorSqrt(n), 2 * l2)
        ELSE FloorDiv(m - CeilSqrt(n), 2 * l2)

\* The point of input edge xy nearest to site_to_avoid, moved into the gap
\* between the coverage intervals of v0 and v1, as the nearest point with
\* integer coordinates (the argument of the final SnapSite).  Positions on the
\* edge are measured from x in units of 1/|xy|^2.
SeparationPoint(site_to_avoid, v0, v1, x, y) ==
    LET xy_dir   == Sub(y, x)
        l2       == DotProd(xy_dir, xy_dir)
        Pos(p)   == DotProd(Sub(p, x), xy_dir)
        Width(p) == LET nDp == CrossProd2(xy_dir, Sub(p, x))
                    IN  Max2(0, edge_snap_radius_ca_ * l2 - nDp * nDp)
        new_site == Min2(Max2(Pos(site_to_avoid), 0), l2)
        at       == IF LessThanSqrt(new_site - Pos(v0), Width(v0))
                    THEN <<Pos(v0), 1, Width(v0)>>
                    ELSE IF LessThanSqrt(Pos(v1) - new_site, Width(v1))
                    THEN <<Pos(v1), -1, Width(v1)>>
                    ELSE <<new_site, 1, 0>>
    IN  IF l2 = 0 THEN x
        ELSE << RoundedCoordinate(x[1], xy_dir[1], at[1], at[2], at[3], l2),
                RoundedCoordinate(x[2], xy_dir[2], at[1], at[2], at[3], l2) >>

\* ------------------------------------------------------------ AddExtraSite
\* An insertion that loses the sites behind the new one.
InsertSiteTruncating(sites, new_site_id, x, ids) ==
    LET before == { k \in 1..Len(ids) :
                      \A m \in 1..k :
                        CompareDistances(x, At(sites, ids[m]), At(sites, new_site_id)) < 0 }
    IN  SubSeq(ids, 1, Cardinality(before)) \o <<new_site_id>>

\* InsertSiteByDistance: std::lower_bound by distance from x, then insert
InsertSiteByDistance(sites, new_site_id, x, ids) ==
    LET before == { k \in 1..Len(ids) :
                      \A m \in 1..k :
                        CompareDistances(x, At(sites, ids[m]), At(sites, new_site_id)) < 0 }
        n      == Cardinality(before)
    IN  SubSeq(ids, 1, n) \o <<new_site_id>> \o SubSeq(ids, n + 1, Len(ids))

\* An AddExtraSite that updates the nearby-site lists but queues no edge.
AddExtraSiteNoResnap(st, new_site) ==
    LET new_site_id == Len(st.sites_)
        sites       == PushBack(st.sites_, new_site)
        near        == { e \in 0..(Len(input_edges_) - 1) : new_site_id \in NearbySites(sites, e) }
    IN  [ sites_          |-> sites,
          edge_sites_     |->
            [ k \in 1..Len(input_edges_) |->
                IF (k - 1) \in near
                THEN InsertSiteByDistance(sites, new_site_id,
                                          At(input_vertices_, input_edges_[k][1]),
                                          st.edge_sites_[k])
                ELSE st.edge_sites_[k] ],
          edges_to_resnap |-> st.edges_to_resnap ]

\* st has the fields sites_, edge_sites_ and edges_to_resnap.
AddExtraSite(st, new_site) ==
    LET new_site_id == Len(st.sites_)
        sites       == PushBack(st.sites_, new_site)
        near        == { e \in 0..(Len(input_edges_) - 1) : new_site_id \in NearbySites(sites, e) }
    IN  [ sites_          |-> sites,
          edge_sites_     |->
            [ k \in 1..Len(input_edges_) |->
                IF (k - 1) \in near
                THEN InsertSiteByDistance(sites, new_site_id,
                                          At(input_vertices_, input_edges_[k][1]),
                                          st.edge_sites_[k])
                ELSE st.edge_sites_[k] ],
          edges_to_resnap |-> st.edges_to_resnap \cup near ]

\* ------------------------------------------------------ MaybeAddExtraSites
\* The "skip" loop after a separation site was added: the last j >= j0 with
\* nearby_sites[j + 1] = target; Len(nearby_sites) when the loop runs off the
\* end of the vector.
SkipToChainSite(nearby_sites, j0, target) ==
    IF \E j \in j0..(Len(nearby_sites) - 2) : At(nearby_sites, j + 1) = target
    THEN CHOOSE j \in j0..(Len(nearby_sites) - 2) :
           /\ At(nearby_sites, j + 1) = target
           /\ \A k \in j0..(j - 1) : At(nearby_sites, k + 1) # target
    ELSE Len(nearby_sites)

\* Whether the snapped edge v0v1 of input edge a0a1 must be kept away from
\* the nearby site "id" by a separation site.
AddSeparationSite(id, site_to_avoid, v0, v1, a0, a1) ==
    \/ /\ ~is_forced(id)
       /\ min_edge_site_separation_ca_ > 0
       /\ CompareEdgeDistance(site_to_avoid, v0, v1, min_edge_site_separation_ca_) < 0
    \/ /\ is_forced(id) \/ check_all_site_crossings_
       /\ Sign(a0, a1, site_to_avoid) # Sign(v0, v1, site_to_avoid)
       /\ CompareEdgeDirections(a0, a1, a0, site_to_avoid) > 0
       /\ CompareEdgeDirections(a0, a1, site_to_avoid, a1) > 0
       /\ CompareEdgeDirections(a0, a1, v0, site_to_avoid) > 0
       /\ CompareEdgeDirections(a0, a1, site_to_avoid, v1) > 0

\* The state after the separation site for site_to_avoid was added.
WithSeparationSite(st, site_to_avoid, v0, v1, a0, a1) ==
    LET point == SeparationPoint(site_to_avoid, v0, v1, a0, a1)
        added == AddExtraSite(st, SnapSite(point))
    IN  [ sites_          |-> added.sites_,
          edge_sites_     |-> added.edge_sites_,
          edges_to_resnap |-> added.edges_to_resnap,
          error_          |-> IF SnapSiteTooFar(point)
                              THEN "BUILDER_SNAP_RADIUS_TOO_SMALL"
                              ELSE st.error_ ]

\* The loop of MaybeAddExtraSites from chain position i and nearby-site
\* position j.  st has the fields sites_, edge_sites_, edges_to_resnap and
\* error_.  Snapped edges are never longer than min_edge_length_to_split_ca_
\* (about 49 degrees), so the deviation test always takes its "continue".
RECURSIVE MaybeAddExtraSitesLoop(_, _, _, _, _)
MaybeAddExtraSitesLoop(st, edge_id, chain, i, j) ==
    LET a0            == At(input_vertices_, At(input_edges_, edge_id)[1])
        a1            == At(input_vertices_, At(input_edges_, edge_id)[2])
        nearby_sites  == At(st.edge_sites_, edge_id)
        id            == At(nearby_sites, j)
        site_to_avoid == At(st.sites_, id)
        v0            == At(st.sites_, At(chain, i - 1))
        v1            == At(st.sites_, At(chain, i))
        after         == WithSeparationSite(st, site_to_avoid, v0, v1, a0, a1)
    IN  IF j >= Len(nearby_sites) THEN st
        ELSE IF id = At(chain, i)
        THEN IF i + 1 = Len(chain) THEN st
             ELSE MaybeAddExtraSitesLoop(st, edge_id, chain, i + 1, j + 1)
        ELSE IF i = 0
        THEN MaybeAddExtraSitesLoop(st, edge_id, chain, i, j + 1)
        ELSE IF AddSeparationSite(id, site_to_avoid, v0, v1, a0, a1)
        THEN MaybeAddExtraSitesLoop(
                 after, edge_id, chain, i,
                 SkipToChainSite(At(after.edge_sites_, edge_id), j, At(chain, i)) + 1)
        ELSE MaybeAddExtraSitesLoop(st, edge_id, chain, i, j + 1)

MaybeAddExtraSites(st, edge_id, chain) ==
    IF chain = <<>> THEN st ELSE MaybeAddExtraSitesLoop(st, edge_id, chain, 0, 0)

\* A CheckEdge that queues the edge it has just snapped once more.
InsertSnapped(resnap, e) == resnap \cup {e}

\* What CheckEdge leaves in the re-snap set before looking for extra sites.
EraseSnapped(resnap, e) == resnap \ {e}

\* The body of the loops of AddExtraSites for input edge e.
CheckEdge(st, e) ==
    MaybeAddExtraSites(
        [st EXCEPT !.edges_to_resnap = EraseSnapped(st.edges_to_resnap, e)], e,
        SnapEdge(input_vertices_, input_edges_, st.sites_, st.edge_sites_,
                 snapping_needed_, e))

\* ------------------------------------------------ ChooseAllVerticesAsSites
\* A ChooseAllVerticesAsSites that leaves the vertex ids of the edges alone.
AllVerticesNotRenumbered ==
    LET points == [k \in 1..Len(SortInputVertices) |->
                      At(input_vertices_, SortInputVertices[k])]
    IN  [ sites_ |-> Unique(points),
          vmap   |-> [k \in 1..Len(input_vertices_) |-> k - 1] ]

\* The sites (sorted input vertices without duplicates) and, for every input
\* vertex id, the id of its site.
AllVerticesAsSites ==
    LET sorted == SortInputVertices
        points == [k \in 1..Len(sorted) |-> At(input_vertices_, sorted[k])]
        sites  == Unique(points)
        SiteOf(v) == CHOOSE id \in 0..(Len(sites) - 1) : At(sites, id) = v
    IN  [ sites_ |-> sites,
          vmap   |-> [k \in 1..Len(input_vertices_) |-> SiteOf(input_vertices_[k])] ]

\* ------------------------------------------------------------- IdSetLexicon
\* Ids of label sets: the empty set has a reserved id, a set with one element
\* has that element as id, any other set has id ~index into the lexicon.
EmptySetId == -1000000

LexiconAdd(lexicon, set) ==
    IF set = {} THEN [lexicon |-> lexicon, id |-> EmptySetId]
    ELSE IF Cardinality(set) = 1
    THEN [lexicon |-> lexicon, id |-> CHOOSE x \in set : TRUE]
    ELSE IF \E k \in 1..Len(lexicon) : lexicon[k] = set
    THEN [lexicon |-> lexicon, id |-> -(CHOOSE k \in 1..Len(lexicon) : lexicon[k] = set)]
    ELSE [lexicon |-> Append(lexicon, set), id |-> -(Len(lexicon) + 1)]

\* The set with the given id; {-1} stands for what an id without a set yields.
LexiconIdSet(lexicon, id) ==
    IF id = EmptySetId THEN {}
    ELSE IF id >= 0 THEN {id}
    ELSE IF -id <= Len(lexicon) THEN lexicon[-id]
    ELSE {-1}

\* ------------------------------------------------------------ AddSnappedEdges
\* AddSnappedEdge: the edge src -> dst of input edge e, and its reverse
\* without input edge id when the layer's edges are undirected.
AddSnappedEdge(src, dst, e, edge_type) ==
    IF edge_type = "UNDIRECTED"
    THEN << [edge |-> <<src, dst>>, input_edge_id |-> e],
            [edge |-> <<dst, src>>, input_edge_id |-> EmptySetId] >>
    ELSE << [edge |-> <<src, dst>>, input_edge_id |-> e] >>

\* The edges chain[i-1] -> chain[i] and all later ones of input edge e.
RECURSIVE ChainEdges(_, _, _, _)
ChainEdges(chain, i, e, edge_type) ==
    IF i > Len(chain) THEN <<>>
    ELSE AddSnappedEdge(chain[i - 1], chain[i], e, edge_type)
           \o ChainEdges(chain, i + 1, e, edge_type)

\* The snapped edges of input edge e for a layer with the given options.
SnappedEdges(e, options) ==
    LET chain == SnapEdge(input_vertices_, input_edges_, sites_, edge_sites_,
                          snapping_needed_, e)
    IN  IF chain = <<>> THEN <<>>
        ELSE IF Len(chain) = 1
        THEN IF options.degenerate_edges = "DISCARD" THEN <<>>
             ELSE AddSnappedEdge(chain[1], chain[1], e, options.edge_type)
        ELSE ChainEdges(chain, 2, e, options.edge_type)

\* An AddSnappedEdges that starts at the first input edge for every layer.
RECURSIVE AddSnappedEdgesFromFirst(_, _, _)
AddSnappedEdgesFromFirst(begin, end, options) ==
    IF end <= 0 THEN <<>>
    ELSE AddSnappedEdgesFromFirst(begin, end - 1, options)
           \o SnappedEdges(end - 1, options)

\* The snapped edges of input edges begin..end-1 with their input edge ids.
RECURSIVE AddSnappedEdges(_, _, _)
AddSnappedEdges(begin, end, options) ==
    IF begin >= end THEN <<>>
    ELSE SnappedEdges(begin, options) \o AddSnappedEdges(begin + 1, end, options)

\* MaybeAddInputVertex: records input vertex v under site id unless
\* site_vertices is not in use or v is the vertex recorded last for the site.
MaybeAddInputVertex(v, id, vertices) ==
    IF vertices = <<>> THEN vertices
    ELSE IF At(vertices, id) = <<>> \/ Back(At(vertices, id)) # v
    THEN [vertices EXCEPT ![id + 1] = PushBack(@, v)]
    ELSE vertices

\* The second MaybeAddInputVertex of AddSnappedEdges, which is only reached
\* by a chain of more than one site.
LastInputVertex(e, chain, vertices) ==
    IF Len(chain) = 1 THEN vertices
    ELSE MaybeAddInputVertex(At(input_edges_, e)[2], Back(chain), vertices)

\* site_vertices after AddSnappedEdges has handled input edge e.
SnappedVerticesOfChain(e, chain, vertices) ==
    IF chain = <<>> THEN vertices
    ELSE LastInputVertex(e, chain,
             MaybeAddInputVertex(At(input_edges_, e)[1], chain[1], vertices))

SnappedVerticesOfEdge(e, vertices) ==
    SnappedVerticesOfChain(e, SnapEdge(input_vertices_, input_edges_, sites_,
                                       edge_sites_, snapping_needed_, e),
                           vertices)

\* site_vertices after AddSnappedEdges has handled input edges begin..end-1.
RECURSIVE AddSnappedVertices(_, _, _)
AddSnappedVertices(begin, end, vertices) ==
    IF begin >= end THEN vertices
    ELSE AddSnappedVertices(begin + 1, end, SnappedVerticesOfEdge(begin, vertices))

\* site_vertices after the AddSnappedEdges calls for layers i.. of
\* BuildLayerEdges.
RECURSIVE LayerSiteVertices(_, _)
LayerSiteVertices(i, vertices) ==
    IF i > Len(layers_) THEN vertices
    ELSE LayerSiteVertices(i + 1,
             AddSnappedVertices(layer_begins_[i], layer_begins_[i + 1], vertices))

\* BuildLayerEdges: whether edge chains are simplified.
Simplify == snapping_needed_ /\ options_.simplify_edge_chains

\* BuildLayerEdges: site_vertices when SimplifyEdgeChains is reached.
SiteVertices ==
    IF Simplify THEN LayerSiteVertices(1, [id \in 1..Len(sites_) |-> <<>>])
    ELSE <<>>

\* ----------------------------------------------------------- MergeLayerEdges
\* The LayerEdgeIds of layers i.., each with its edge, in layer order.
RECURSIVE LayerEdgeIds(_, _)
LayerEdgeIds(edges, i) ==
    IF i > Len(edges) THEN <<>>
    ELSE [ e \in 1..Len(edges[i]) |->
             [ edge          |-> edges[i][e].edge,
               input_edge_id |-> edges[i][e].input_edge_id,
               layer         |-> i - 1,
               id            |-> e - 1 ] ]
           \o LayerEdgeIds(edges, i + 1)

\* StableLessThan: by edge, ties broken by the LayerEdgeId.
StableLessThan(a, b) ==
    IF a.edge[1] # b.edge[1] THEN a.edge[1] < b.edge[1]
    ELSE IF a.edge[2] # b.edge[2] THEN a.edge[2] < b.edge[2]
    ELSE IF a.layer # b.layer THEN a.layer < b.layer
    ELSE a.id < b.id

\* MergeLayerEdges: the edges of all layers in lexicographic order, each
\* with its input edge ids and its layer.
MergeLayerEdges(edges) == SortSeq(LayerEdgeIds(edges, 1), StableLessThan)

\* ------------------------------------------------------------- Graph maps
\* VertexOutMap::edge_ids(v): the edges that leave v, by EdgeId.
OutEdgeIds(g, v) == SetToSeq({ e \in 1..Len(g) : g[e].edge[1] = v })

\* VertexOutMap::edge_ids(v0, v1): the edges from v0 to v1, by EdgeId.
EdgeIdsBetween(g, v0, v1) == SetToSeq({ e \in 1..Len(g) : g[e].edge = <<v0, v1>> })

\* VertexInMap::edge_ids(v): the edges that enter v.
InEdgeIds(g, v) == SetToSeq({ e \in 1..Len(g) : g[e].edge[2] = v })

\* Graph::input_edge_ids(e): the input edges that edge e of g stands for.
\* The ids are those of AddSnappedEdge: one input edge, or none.
GraphInputEdgeIds(g, e) == SetToSeq(LexiconIdSet(<<>>, g[e].input_edge_id))

\* ------------------------------------------------- InteriorVertexMatcher
NewMatcher ==
    [ v1 |-> -1, v2 |-> -1, n0 |-> 0, n1 |-> 0, n2 |-> 0, excess_out |-> 0,
      too_many_endpoints |-> FALSE ]

MatcherStartLayer(m) == [m EXCEPT !.excess_out = 0, !.n0 = 0, !.n1 = 0, !.n2 = 0]

\* Tally without the excess: the counts of the vertex at the other end.
TallyEndpoint(m, v0, v) ==
    IF v = v0 THEN [m EXCEPT !.n0 = @ + 1]
    ELSE LET m1 == IF m.v1 < 0 THEN [m EXCEPT !.v1 = v] ELSE m
         IN  IF m1.v1 = v THEN [m1 EXCEPT !.n1 = @ + 1]
             ELSE LET m2 == IF m1.v2 < 0 THEN [m1 EXCEPT !.v2 = v] ELSE m1
                  IN  IF m2.v2 = v THEN [m2 EXCEPT !.n2 = @ + 1]
                      ELSE [m2 EXCEPT !.too_many_endpoints = TRUE]

MatcherTally(m, v0, v, outgoing) ==
    TallyEndpoint([m EXCEPT !.excess_out = @ + (IF outgoing THEN 1 ELSE -1)], v0, v)

MatcherMatches(m) ==
    /\ ~m.too_many_endpoints
    /\ m.excess_out = 0
    /\ m.n1 = m.n2
    /\ (m.n0 = 0 \/ m.n1 > 0)

\* The matcher after an edge incident to v was tallied, twice when the edge
\* is degenerate.
TallyEdge(m, v, edge) ==
    LET out == IF edge[1] = v THEN MatcherTally(m, v, edge[2], TRUE) ELSE m
    IN  IF edge[2] = v THEN MatcherTally(out, v, edge[1], FALSE) ELSE out

\* --------------------------------------------------------------- IsInterior
\* The loop of IsInterior over the edges of v from position k, grouped by
\* layer; Matches is asked at the end of every group.
RECURSIVE MatchLayers(_, _, _, _, _)
MatchLayers(g, v, edges, k, m) ==
    IF k > Len(edges) THEN TRUE
    ELSE LET layer   == g[edges[k]].layer
             started == IF k = 1 \/ g[edges[Max2(k - 1, 1)]].layer # layer
                        THEN MatcherStartLayer(m) ELSE m
             tallied == TallyEdge(started, v, g[edges[k]].edge)
             last    == k = Len(edges) \/ g[edges[Min2(k + 1, Len(edges))]].layer # layer
         IN  IF last /\ ~MatcherMatches(tallied) THEN FALSE
             ELSE MatchLayers(g, v, edges, k + 1, tallied)

\* An IsInterior without the test for forced vertices.
IsInteriorIgnoringForced(g, v) ==
    LET out == OutEdgeIds(g, v)
        in  == InEdgeIds(g, v)
    IN  IF Len(out) = 0 THEN FALSE
        ELSE IF Len(out) # Len(in) THEN FALSE
        ELSE MatchLayers(g, v, SortSeq(out \o in,
                                       LAMBDA x, y : g[x].layer < g[y].layer),
                         1, NewMatcher)

\* EdgeChainSimplifier::IsInterior: vertex v of the merged graph g can be an
\* interior vertex of a simplified edge chain.
IsInterior(g, v) ==
    LET out == OutEdgeIds(g, v)
        in  == InEdgeIds(g, v)
    IN  IF Len(out) = 0 THEN FALSE
        ELSE IF Len(out) # Len(in) THEN FALSE
        ELSE IF is_forced(v) THEN FALSE
        ELSE MatchLayers(g, v, SortSeq(out \o in,
                                       LAMBDA x, y : g[x].layer < g[y].layer),
                         1, NewMatcher)

\* ------------------------------------------------------ S2PolylineSimplifier
\* The simplifier of edges that start at src: the discs the edge has to pass
\* through and the discs it has to avoid.  Its window of allowed directions
\* is the set of directions that meet all of them, so that Extend can test
\* the direction of dst against the discs one by one.
SimplifierInit(src) == [ src |-> src, targets |-> <<>>, avoids |-> <<>>, ok |-> TRUE ]

\* TargetDisc: nothing to do for a disc that contains src.
TargetDisc(simplifier, p, r) ==
    IF ChordAngle(simplifier.src, p) <= r THEN simplifier
    ELSE [simplifier EXCEPT !.targets = PushBack(@, [p |-> p, r |-> r])]

\* AvoidDisc: fails for a disc that contains src.
AvoidDisc(simplifier, p, r, disc_on_left) ==
    IF ChordAngle(simplifier.src, p) <= r THEN [simplifier EXCEPT !.ok = FALSE]
    ELSE [simplifier EXCEPT
             !.avoids = PushBack(@, [p |-> p, r |-> r, disc_on_left |-> disc_on_left])]

\* The direction u passes within sqrt(r) of the point at w (both relative
\* to src), which lies ahead.
PassesThrough(u, w, r) ==
    DotProd(u, w) > 0 /\ CrossProd2(u, w) * CrossProd2(u, w) <= r * DotProd(u, u)

\* The direction u leaves the disc of radius sqrt(r) around w on the stated
\* side: the directions from the tangent on the far side of the disc up to a
\* right angle on the near side are excluded.
PassesBy(u, w, r, disc_on_left) ==
    LET side == IF disc_on_left THEN CrossProd2(u, w) ELSE -CrossProd2(u, w)
    IN  \/ DotProd(u, w) < 0
        \/ side > 0 /\ (DotProd(u, w) <= 0 \/ side * side > r * DotProd(u, u))

\* Extend: the edge from src to dst meets every disc given so far.
Extend(simplifier, dst) ==
    LET u == Sub(dst, simplifier.src)
    IN  /\ simplifier.ok
        /\ \A k \in 1..Len(simplifier.targets) :
               PassesThrough(u, Sub(simplifier.targets[k].p, simplifier.src),
                             simplifier.targets[k].r)
        /\ \A k \in 1..Len(simplifier.avoids) :
               PassesBy(u, Sub(simplifier.avoids[k].p, simplifier.src),
                        simplifier.avoids[k].r, simplifier.avoids[k].disc_on_left)

\* ------------------------------------------------------ TargetInputVertices
RECURSIVE TargetInputVerticesFrom(_, _, _)
TargetInputVerticesFrom(vertices, k, simplifier) ==
    IF k > Len(vertices) THEN simplifier
    ELSE TargetInputVerticesFrom(
             vertices, k + 1,
             TargetDisc(simplifier, At(input_vertices_, vertices[k]),
                        edge_snap_radius_ca_))

\* The simplifier after the input vertices snapped to v were targeted.
TargetInputVertices(vertices, v, simplifier) ==
    TargetInputVerticesFrom(At(vertices, v), 1, simplifier)

\* --------------------------------------------------------------- AvoidSites
\* The input edge with the shortest list of edge_sites_ among the input
\* edges of the graph edges es from position k, the first one on ties.
RECURSIVE BestInputEdgeOf(_, _, _)
BestInputEdgeOf(ids, k, best) ==
    IF k > Len(ids) THEN best
    ELSE BestInputEdgeOf(
             ids, k + 1,
             IF best < 0 \/ Len(At(edge_sites_, ids[k])) < Len(At(edge_sites_, best))
             THEN ids[k] ELSE best)

RECURSIVE BestInputEdge(_, _, _, _)
BestInputEdge(g, es, k, best) ==
    IF k > Len(es) THEN best
    ELSE BestInputEdge(g, es, k + 1,
                       BestInputEdgeOf(GraphInputEdgeIds(g, es[k]), 1, best))

\* Lattice distances stay below min_edge_length_to_split_ca_, which is
\* between 30 and 50 degrees.
AtLeastLengthToSplit(r) == FALSE

\* The side of the edge (v1, v2) of the chain from v0 on which site v lies.
DiscOnLeft(v0, v1, v2, v) ==
    IF v1 = v0 THEN Sign(At(sites_, v1), At(sites_, v2), At(sites_, v)) > 0
    ELSE OrderedCCW(At(sites_, v0), At(sites_, v2), At(sites_, v), At(sites_, v1))

\* av after site v was marked as used and its disc was given to the
\* simplifier.  av has the fields ok, used_vertices and simplifier.
AvoidedSite(av, v, avoided) ==
    [ ok            |-> avoided.ok,
      used_vertices |-> av.used_vertices \cup {v},
      simplifier    |-> avoided ]

\* One round of the loop of AvoidSites: site v is skipped when it is not
\* nearer to v0 than v2 is, or when it was used before.
AvoidSite(v, v0, v1, v2, av) ==
    IF \/ ChordAngle(At(sites_, v0), At(sites_, v))
             >= ChordAngle(At(sites_, v0), At(sites_, v2))
       \/ v \in av.used_vertices
    THEN av
    ELSE AvoidedSite(av, v,
                     AvoidDisc(av.simplifier, At(sites_, v),
                               min_edge_site_separation_ca_,
                               DiscOnLeft(v0, v1, v2, v)))

\* The loop of AvoidSites over the sites near the edge, from position k; it
\* ends at the first disc that cannot be avoided.
RECURSIVE AvoidSitesFrom(_, _, _, _, _, _)
AvoidSitesFrom(nearby, k, v0, v1, v2, av) ==
    IF k > Len(nearby) \/ ~av.ok THEN av
    ELSE AvoidSitesFrom(nearby, k + 1, v0, v1, v2,
                        AvoidSite(nearby[k], v0, v1, v2, av))

\* EdgeChainSimplifier::AvoidSites for the chain start v0 and the last edge
\* (v1, v2).
AvoidSites(g, v0, v1, v2, used_vertices, simplifier) ==
    LET r1   == ChordAngle(At(sites_, v0), At(sites_, v1))
        r2   == ChordAngle(At(sites_, v0), At(sites_, v2))
        best == BestInputEdge(g, EdgeIdsBetween(g, v1, v2) \o EdgeIdsBetween(g, v2, v1),
                              1, -1)
    IN  IF r2 < r1 \/ AtLeastLengthToSplit(r2)
        THEN [ ok |-> FALSE, used_vertices |-> used_vertices, simplifier |-> simplifier ]
        ELSE AvoidSitesFrom(At(edge_sites_, best), 1, v0, v1, v2,
                            [ ok |-> TRUE, used_vertices |-> used_vertices,
                              simplifier |-> simplifier ])

\* -------------------------------------------------------------- FollowChain
\* The first vertex other than v0 and v1 that an edge from v1 leads to.
FollowChain(g, v0, v1) ==
    LET out == OutEdgeIds(g, v1)
        k   == CHOOSE k \in 1..Len(out) :
                   /\ g[out[k]].edge[2] \notin {v0, v1}
                   /\ \A j \in 1..(k - 1) : g[out[j]].edge[2] \in {v0, v1}
    IN  g[out[k]].edge[2]

\* --------------------------------------------------------------- OutputEdge
\* out has the fields new_edges (each with its layer), used and lexicon,
\* and the list of the edges in the order in which they were marked as used.
OutputEdge(g, out, e) ==
    [ new_edges |-> PushBack(out.new_edges,
                             [ edge          |-> g[e].edge,
                               input_edge_id |-> g[e].input_edge_id,
                               layer         |-> g[e].layer ]),
      used      |-> out.used \cup {e},
      consumed  |-> PushBack(out.consumed, e),
      lexicon   |-> out.lexicon ]

RECURSIVE OutputEdges(_, _, _, _)
OutputEdges(g, out, es, k) ==
    IF k > Len(es) THEN out
    ELSE OutputEdges(g, OutputEdge(g, out, es[k]), es, k + 1)

\* OutputAllEdges: every edge between v0 and v1, in both directions.
OutputAllEdges(g, out, v0, v1) ==
    OutputEdges(g, OutputEdges(g, out, EdgeIdsBetween(g, v0, v1), 1),
                EdgeIdsBetween(g, v1, v0), 1)

\* ---------------------------------------------------- AssignDegenerateEdges
\* input_edge_layer: the layer of an input edge.
input_edge_layer(id) ==
    Cardinality({ k \in 1..Len(layer_begins_) : layer_begins_[k] <= id }) - 1

\* The output edges with input edge ids, by their minimum input edge id.
DegenerateOrder(merged_ids) ==
    SortSeq(SetToSeq({ j \in 1..Len(merged_ids) : merged_ids[j] # <<>> }),
            LAMBDA i, j : merged_ids[i][1] < merged_ids[j][1])

\* The position in order of the output edge that takes degenerate_id: the
\* first one whose ids start after it, or the one before that when it
\* belongs to the layer of degenerate_id.
DegenerateTarget(merged_ids, order, degenerate_id) ==
    LET it == Cardinality({ k \in 1..Len(order) :
                              merged_ids[order[k]][1] <= degenerate_id }) + 1
    IN  IF it # 1 /\ merged_ids[order[Max2(it - 1, 1)]][1]
                         >= At(layer_begins_, input_edge_layer(degenerate_id))
        THEN it - 1 ELSE it

\* The loop over the degenerate ids from position k.  An id without a
\* candidate (no output edge of its layer) would be written past the end of
\* the candidates; it is left out here.
RECURSIVE AssignDegenerateEdgesFrom(_, _, _, _)
AssignDegenerateEdgesFrom(degenerate_ids, k, order, merged_ids) ==
    IF k > Len(degenerate_ids) THEN merged_ids
    ELSE LET it == DegenerateTarget(merged_ids, order, degenerate_ids[k])
         IN  AssignDegenerateEdgesFrom(
                 degenerate_ids, k + 1, order,
                 IF it > Len(order) THEN merged_ids
                 ELSE [merged_ids EXCEPT ![order[it]] = PushBack(@, degenerate_ids[k])])

AssignDegenerateEdges(degenerate_ids, merged_ids) ==
    LET sorted == [ j \in 1..Len(merged_ids) |->
                      SortSeq(merged_ids[j], LAMBDA x, y : x < y) ]
    IN  AssignDegenerateEdgesFrom(degenerate_ids, 1, DegenerateOrder(sorted), sorted)

\* --------------------------------------------------------------- MergeChain
\* The input edge ids of the graph edges es from position k, in order.
RECURSIVE InputEdgeIdsOfEdges(_, _, _)
InputEdgeIdsOfEdges(g, es, k) ==
    IF k > Len(es) THEN <<>>
    ELSE GraphInputEdgeIds(g, es[k]) \o InputEdgeIdsOfEdges(g, es, k + 1)

\* The loop of MergeChain over the edges of the chain, from vertices[i-1]
\* to vertices[i] (positions as in the code).  mc has the fields
\* merged_input_ids, degenerate_ids, used and consumed.
RECURSIVE MergeChainFrom(_, _, _, _)
MergeChainFrom(g, vertices, i, mc) ==
    IF i >= Len(vertices) THEN mc
    ELSE LET v0         == At(vertices, i - 1)
             v1         == At(vertices, i)
             out_edges  == EdgeIdsBetween(g, v0, v1)
             in_edges   == EdgeIdsBetween(g, v1, v0)
             both       == out_edges \o in_edges
             degenerate == IF i = 1 THEN <<>> ELSE EdgeIdsBetween(g, v0, v0)
             ids        == IF i = 1 THEN [ j \in 1..Len(both) |-> <<>> ]
                           ELSE mc.merged_input_ids
         IN  MergeChainFrom(
                 g, vertices, i + 1,
                 [ merged_input_ids |->
                       [ j \in 1..Len(ids) |->
                           IF j <= Len(both)
                           THEN ids[j] \o GraphInputEdgeIds(g, both[j])
                           ELSE ids[j] ],
                   degenerate_ids |->
                       mc.degenerate_ids \o InputEdgeIdsOfEdges(g, degenerate, 1),
                   used |-> mc.used \cup Range(both) \cup Range(degenerate),
                   consumed |-> mc.consumed \o degenerate \o both ])

\* The merged edges of MergeChain: one from the first to the last vertex for
\* every edge from vertices[0] to vertices[1], and one back for every edge
\* from vertices[1] to vertices[0], each in the layer of that edge.
MergedEdges(g, vertices) ==
    LET v0 == At(vertices, 0)
        v1 == At(vertices, 1)
        vb == Back(vertices)
        out_edges == EdgeIdsBetween(g, v0, v1)
        in_edges  == EdgeIdsBetween(g, v1, v0)
    IN  [ j \in 1..Len(out_edges) |-> [ edge |-> <<v0, vb>>, layer |-> g[out_edges[j]].layer ] ]
          \o [ j \in 1..Len(in_edges) |-> [ edge |-> <<vb, v0>>, layer |-> g[in_edges[j]].layer ] ]

\* The output after the id sets from position j were added to the lexicon
\* and the merged edges were appended with the ids of their sets.
RECURSIVE OutputMergedEdges(_, _, _, _)
OutputMergedEdges(out, edges, ids, j) ==
    IF j > Len(edges) THEN out
    ELSE LET added == LexiconAdd(out.lexicon, Range(ids[j]))
         IN  OutputMergedEdges(
                 [ new_edges |-> PushBack(out.new_edges,
                                          [ edge          |-> edges[j].edge,
                                            input_edge_id |-> added.id,
                                            layer         |-> edges[j].layer ]),
                   used      |-> out.used,
                   consumed  |-> out.consumed,
                   lexicon   |-> added.lexicon ],
                 edges, ids, j + 1)

\* The ids of the merged edges after the degenerate ids were assigned.
AssignedChain(mc) ==
    [ merged_input_ids |->
          IF mc.degenerate_ids = <<>> THEN mc.merged_input_ids
          ELSE AssignDegenerateEdges(
                   SortSeq(mc.degenerate_ids, LAMBDA x, y : x < y),
                   mc.merged_input_ids),
      used     |-> mc.used,
      consumed |-> mc.consumed ]

\* The chain as MergeChainFrom leaves it, with the degenerate ids assigned.
ChainInputEdgeIds(g, out, vertices) ==
    AssignedChain(MergeChainFrom(g, vertices, 1,
                                 [ merged_input_ids |-> <<>>, degenerate_ids |-> <<>>,
                                   used |-> out.used, consumed |-> out.consumed ]))

\* The merged edges of the chain, each with the first of its input edge ids.
OutputFirstIds(g, out, vertices, mc) ==
    OutputMergedEdges([out EXCEPT !.used = mc.used, !.consumed = mc.consumed],
                      MergedEdges(g, vertices),
                      [ j \in 1..Len(mc.merged_input_ids) |->
                          SubSeq(mc.merged_input_ids[j], 1, 1) ],
                      1)

\* A MergeChain whose merged edges carry the first input edge id only.
MergeChainWithFirstId(g, out, vertices) ==
    OutputFirstIds(g, out, vertices, ChainInputEdgeIds(g, out, vertices))

\* The merged edges of the chain, each with the set of its input edge ids.
OutputChainIds(g, out, vertices, mc) ==
    OutputMergedEdges([out EXCEPT !.used = mc.used, !.consumed = mc.consumed],
                      MergedEdges(g, vertices), mc.merged_input_ids, 1)

\* EdgeChainSimplifier::MergeChain.
MergeChain(g, out, vertices) ==
    OutputChainIds(g, out, vertices, ChainInputEdgeIds(g, out, vertices))

\* ------------------------------------------------------------ SimplifyChain
\* The inner loop of SimplifyChain from the point where v1 is added to the
\* chain.  Returns the chain, whether the whole chain is done, and the edge
\* (v0, v1) with which the next subchain starts.
RECURSIVE ExtendChain(_, _, _, _, _, _, _, _, _)
RECURSIVE ExtendChainTo(_, _, _, _, _, _, _, _, _)

\* The end of one round: the chain goes on to next when the simplifier can
\* be extended to it, and the subchain ends at v1 otherwise.
ExtendChainIf(g, vertices, is_interior, vstart, extended, v1, next, simplify, avoided) ==
    IF simplify /\ avoided.ok /\ Extend(avoided.simplifier, At(sites_, next))
    THEN ExtendChain(g, vertices, is_interior, vstart, extended, v1, next,
                     simplify, avoided)
    ELSE [ chain |-> extended, done |-> FALSE, v0 |-> v1, v1 |-> next ]

\* The round for the edge (v1, next): the input vertices of v1 are targeted
\* and the sites near the edge are avoided.
ExtendChainTo(g, vertices, is_interior, vstart, extended, v1, next, simplify, av) ==
    ExtendChainIf(g, vertices, is_interior, vstart, extended, v1, next, simplify,
                  AvoidSites(g, extended[1], v1, next, av.used_vertices \cup {v1},
                             TargetInputVertices(vertices, v1, av.simplifier)))

ExtendChain(g, vertices, is_interior, vstart, chain, v0, v1, simplify, av) ==
    IF ~is_interior[v1 + 1] \/ v1 = vstart
    THEN [ chain |-> PushBack(chain, v1), done |-> TRUE, v0 |-> v0, v1 |-> v1 ]
    ELSE ExtendChainTo(g, vertices, is_interior, vstart, PushBack(chain, v1), v1,
                       FollowChain(g, v0, v1), simplify, av)

\* The subchain from (v0, v1) once the sites near its first edge were avoided.
SubchainAfter(g, vertices, is_interior, vstart, v0, v1, first) ==
    ExtendChain(g, vertices, is_interior, vstart, <<v0>>, v0, v1, first.ok, first)

\* One subchain of SimplifyChain, starting with the edge (v0, v1).
Subchain(g, vertices, is_interior, vstart, v0, v1) ==
    SubchainAfter(g, vertices, is_interior, vstart, v0, v1,
                  AvoidSites(g, v0, v0, v1, {v0}, SimplifierInit(At(sites_, v0))))

\* The output after a subchain: its edges as they are when it has one edge,
\* and the merged chain otherwise.
OutputChain(g, out, chain) ==
    IF Len(chain) = 2 THEN OutputAllEdges(g, out, chain[1], chain[2])
    ELSE MergeChain(g, out, chain)

\* EdgeChainSimplifier::SimplifyChain: follows the chain that starts with
\* (v0, v1) up to a vertex that is not interior or back to vstart.
RECURSIVE SimplifyChainFrom(_, _, _, _, _, _, _)

\* The outer loop after the subchain sub was put out as merged.
SimplifyChainAfter(g, vertices, is_interior, merged, vstart, sub) ==
    IF sub.done THEN merged
    ELSE SimplifyChainFrom(g, vertices, is_interior, merged, vstart, sub.v0, sub.v1)

SimplifyChainOf(g, vertices, is_interior, out, vstart, sub) ==
    SimplifyChainAfter(g, vertices, is_interior, OutputChain(g, out, sub.chain),
                       vstart, sub)

SimplifyChainFrom(g, vertices, is_interior, out, vstart, v0, v1) ==
    SimplifyChainOf(g, vertices, is_interior, out, vstart,
                    Subchain(g, vertices, is_interior, vstart, v0, v1))

SimplifyChain(g, vertices, is_interior, out, v0, v1) ==
    SimplifyChainFrom(g, vertices, is_interior, out, v0, v0, v1)

\* ---------------------------------------------------------------------- Run
\* The first loop of Run from edge e: the chains that start at a vertex that
\* is not interior.
RECURSIVE RunChains(_, _, _, _, _)
RunChains(g, vertices, is_interior, out, e) ==
    IF e > Len(g) THEN out
    ELSE RunChains(
             g, vertices, is_interior,
             IF e \in out.used \/ is_interior[g[e].edge[1] + 1] THEN out
             ELSE IF ~is_interior[g[e].edge[2] + 1] THEN OutputEdge(g, out, e)
             ELSE SimplifyChain(g, vertices, is_interior, out, g[e].edge[1], g[e].edge[2]),
             e + 1)

\* The second loop of Run from edge e: the edges left over, which belong to
\* loops of interior vertices.
RECURSIVE RunLoops(_, _, _, _, _)
RunLoops(g, vertices, is_interior, out, e) ==
    IF e > Len(g) THEN out
    ELSE RunLoops(
             g, vertices, is_interior,
             IF e \in out.used THEN out
             ELSE IF g[e].edge[1] = g[e].edge[2] THEN OutputEdge(g, out, e)
             ELSE SimplifyChain(g, vertices, is_interior, out, g[e].edge[1], g[e].edge[2]),
             e + 1)

\* The edges of new_edges that belong to the given layer, in order.
LayerOfNewEdges(new_edges, layer) ==
    LET es == SetToSeq({ e \in 1..Len(new_edges) : new_edges[e].layer = layer })
    IN  [ k \in 1..Len(es) |-> [ edge          |-> new_edges[es[k]].edge,
                                 input_edge_id |-> new_edges[es[k]].input_edge_id ] ]

\* EdgeChainSimplifier::Run on the merged graph g: the output edges with
\* their layers and the lexicon of their input edge id sets.
RunWith(g, vertices, is_interior) ==
    RunLoops(g, vertices, is_interior,
             RunChains(g, vertices, is_interior,
                       [ new_edges |-> <<>>, used |-> {}, consumed |-> <<>>,
                         lexicon |-> <<>> ],
                       1),
             1)

Run(g, vertices) ==
    RunWith(g, vertices, [ v \in 1..Len(sites_) |-> IsInterior(g, v - 1) ])

\* ------------------------------------------------------- SimplifyEdgeChains
\* layer_edges and the lexicon after SimplifyEdgeChains.
SimplifiedLayers(edges, out) ==
    [ layer_edges |-> [ i \in 1..Len(edges) |-> LayerOfNewEdges(out.new_edges, i - 1) ],
      lexicon     |-> out.lexicon ]

SimplifyEdgeChains(vertices, edges) ==
    IF layers_ = <<>> THEN [ layer_edges |-> edges, lexicon |-> <<>> ]
    ELSE SimplifiedLayers(edges, Run(MergeLayerEdges(edges), vertices))

\* BuildLayerEdges up to ClearEdgeSites: the snapped edges of every layer,
\* simplified when that is asked for, with the lexicon of their id sets.
BuildLayerEdgesOf(edges) ==
    IF Simplify THEN SimplifyEdgeChains(SiteVertices, edges)
    ELSE [ layer_edges |-> edges, lexicon |-> <<>> ]

BuildLayerEdges ==
    BuildLayerEdgesOf([ i \in 1..Len(layers_) |->
                          AddSnappedEdges(layer_begins_[i], layer_begins_[i + 1],
                                          layer_options_[i]) ])

\* ------------------------------------------------------------------- labels
\* The label members of the builder as one record.
Labels ==
    [ label_set_          |-> label_set_,
      label_set_modified_ |-> label_set_modified_,
      label_set_id_       |-> label_set_id_,
      label_set_ids_      |-> label_set_ids_,
      label_set_lexicon_  |-> label_set_lexicon_ ]

\* The label members as Init() and the member initialisers leave them.
InitialLabels ==
    [ label_set_          |-> <<>>,
      label_set_modified_ |-> FALSE,
      label_set_id_       |-> EmptySetId,
      label_set_ids_      |-> <<>>,
      label_set_lexicon_  |-> <<>> ]

\* The label members of a builder that was never used, with the list of the
\* label sets that were current at each AddEdge.
FreshBuilderLabels ==
    [ label_set_          |-> InitialLabels.label_set_,
      label_set_modified_ |-> InitialLabels.label_set_modified_,
      label_set_id_       |-> InitialLabels.label_set_id_,
      label_set_ids_      |-> InitialLabels.label_set_ids_,
      label_set_lexicon_  |-> InitialLabels.label_set_lexicon_,
      current             |-> <<>> ]

\* Notes the label set that is current at an AddEdge.
WithCurrentLabels(ls, label_set) ==
    [ls EXCEPT !.current = PushBack(@, Range(label_set))]

clear_labels(ls) == [ls EXCEPT !.label_set_ = <<>>, !.label_set_modified_ = TRUE]

push_label(ls, label) ==
    [ls EXCEPT !.label_set_ = PushBack(@, label), !.label_set_modified_ = TRUE]

pop_label(ls) == [ls EXCEPT !.label_set_ = PopBack(@), !.label_set_modified_ = TRUE]

set_label(ls, label) ==
    [ls EXCEPT !.label_set_ = <<label>>, !.label_set_modified_ = TRUE]

\* The id given to the input edges added before the first label call.
MissingLabelSetId(ls) == ls.label_set_id_

\* The label part of AddEdge; n is input_edges_.size() after the push_back.
AttachLabels(ls, n) ==
    IF ls.label_set_modified_
    THEN LET ids   == IF ls.label_set_ids_ = <<>>
                      THEN Assign(n - 1, MissingLabelSetId(ls))
                      ELSE ls.label_set_ids_
             added == LexiconAdd(ls.label_set_lexicon_, Range(ls.label_set_))
         IN  [ls EXCEPT !.label_set_ids_      = PushBack(ids, added.id),
                        !.label_set_id_       = added.id,
                        !.label_set_lexicon_  = added.lexicon,
                        !.label_set_modified_ = FALSE]
    ELSE IF ls.label_set_ids_ # <<>>
    THEN [ls EXCEPT !.label_set_ids_ = PushBack(@, ls.label_set_id_)]
    ELSE ls

\* The labels of input edge e as a layer reads them from its graph.
EdgeLabels(ids, lexicon, e) ==
    IF ids = <<>> THEN {} ELSE LexiconIdSet(lexicon, At(ids, e))

\* ---------------------------------------------------------------- scenarios
\* Options without snapping: IdentitySnapFunction with a zero snap radius.
ExactOptions(tracker) ==
    [ snap_radius |-> 0, grid |-> 0, min_vertex_separation |-> 0,
      min_edge_vertex_separation |-> 0, intersection_tolerance |-> 0,
      split_crossing_edges |-> FALSE, simplify_edge_chains |-> FALSE,
      idempotent |-> TRUE, memory_tracker |-> tracker ]

\* A snap function that rounds to multiples of 4 but declares snap radius 1.
CoarseOptions ==
    [ snap_radius |-> 1, grid |-> 4, min_vertex_separation |-> 1,
      min_edge_vertex_separation |-> 1, intersection_tolerance |-> 0,
      split_crossing_edges |-> FALSE, simplify_edge_chains |-> FALSE,
      idempotent |-> TRUE, memory_tracker |-> "limited" ]

\* A layer: its GraphOptions and whether its Build asks the graph whether a
\* degenerate polygon is full.
PolylineLayer ==
    [ graph_options |-> [edge_type |-> "DIRECTED", degenerate_edges |-> "KEEP"],
      asks_is_full_polygon |-> FALSE ]

PolygonLayer ==
    [ graph_options |-> [edge_type |-> "DIRECTED", degenerate_edges |-> "DISCARD"],
      asks_is_full_polygon |-> TRUE ]

LabelScenario ==
    [ name |-> "labels", options |-> ExactOptions("none"),
      edges |-> { << <<0, 0>>, <<4, 0>> >> }, forced |-> {},
      labels |-> {5, 7}, layers |-> {PolylineLayer}, predicates |-> {},
      reuse |-> TRUE, distinct |-> FALSE, resnap |-> FALSE,
      max_layers |-> 1 ]

LayerScenario ==
    [ name |-> "layers", options |-> ExactOptions("none"),
      edges |-> { << <<0, 0>>, <<4, 0>> >>, << <<4, 0>>, <<4, 0>> >> },
      forced |-> {}, labels |-> {},
      layers |-> {PolylineLayer, PolygonLayer},
      predicates |-> {"IsFullPolygon(true)", "IsFullPolygonUnspecified"},
      reuse |-> FALSE, distinct |-> FALSE, resnap |-> FALSE,
      max_layers |-> MaxLayers ]

TrackerScenario ==
    [ name |-> "tracker", options |-> ExactOptions("limited"),
      edges |-> { << <<0, 0>>, <<4, 0>> >> },
      forced |-> { <<0, 0>> }, labels |-> {},
      layers |-> {PolygonLayer}, predicates |-> {},
      reuse |-> FALSE, distinct |-> FALSE, resnap |-> FALSE,
      max_layers |-> 1 ]

CoarseScenario ==
    [ name |-> "coarse", options |-> CoarseOptions,
      edges |-> { << <<1, 1>>, <<9, 1>> >>, << <<8, 0>>, <<0, 0>> >> },
      forced |-> {}, labels |-> {},
      layers |-> {PolygonLayer},
      predicates |-> {"IsFullPolygonUnspecified"},
      reuse |-> FALSE, distinct |-> FALSE, resnap |-> FALSE,
      max_layers |-> 1 ]

\* A snap function that rounds to the integer lattice, with snap radius 5,
\* minimum vertex separation sqrt(18) and minimum edge-vertex separation
\* sqrt(6) (all stored squared, as chord angles are).
LatticeOptions ==
    [ snap_radius |-> 25, grid |-> 1, min_vertex_separation |-> 18,
      min_edge_vertex_separation |-> 6, intersection_tolerance |-> 0,
      split_crossing_edges |-> FALSE, simplify_edge_chains |-> FALSE,
      idempotent |-> TRUE, memory_tracker |-> "none" ]

\* Three long edges and a point near them; each edge is added once per
\* Build, in any order, and the output may be snapped again.
OrderScenario ==
    [ name |-> "order", options |-> LatticeOptions,
      edges |-> { << <<5, 2>>, <<22, 2>> >>, << <<4, 6>>, <<22, 6>> >>,
                  << <<13, 0>>, <<13, 0>> >>, << <<4, 5>>, <<27, 6>> >> },
      forced |-> {}, labels |-> {}, layers |-> {PolylineLayer},
      predicates |-> {}, reuse |-> TRUE, distinct |-> TRUE, resnap |-> TRUE,
      max_layers |-> 1 ]

\* Three edges that cross near each other's vertices.
CrossingScenario ==
    [ name |-> "crossing", options |-> LatticeOptions,
      edges |-> { << <<10, 3>>, <<5, 4>> >>, << <<0, 8>>, <<6, 0>> >>,
                  << <<3, 11>>, <<15, 5>> >> },
      forced |-> {}, labels |-> {}, layers |-> {PolylineLayer},
      predicates |-> {}, reuse |-> TRUE, distinct |-> TRUE, resnap |-> TRUE,
      max_layers |-> 1 ]

\* Two forced vertices closer to each other than the vertex separation.
ForcedScenario ==
    [ name |-> "forced", options |-> LatticeOptions,
      edges |-> { << <<0, 0>>, <<1, 0>> >>, << <<0, 0>>, <<9, 1>> >> },
      forced |-> { <<0, 0>>, <<1, 0>> }, labels |-> {},
      layers |-> {PolylineLayer},
      predicates |-> {}, reuse |-> TRUE, distinct |-> TRUE, resnap |-> TRUE,
      max_layers |-> 1 ]

\* Two vertices at exactly the minimum vertex separation, and a third one
\* farther away.
SeparationScenario ==
    [ name |-> "separation", options |-> LatticeOptions,
      edges |-> { << <<0, 0>>, <<3, 3>> >>, << <<3, 3>>, <<8, 3>> >> },
      forced |-> {}, labels |-> {}, layers |-> {PolylineLayer},
      predicates |-> {}, reuse |-> FALSE, distinct |-> TRUE, resnap |-> FALSE,
      max_layers |-> 1 ]

\* The identity snap function with snap radius zero, an intersection
\* tolerance, and idempotent() false.
ToleranceOptions ==
    [ snap_radius |-> 0, grid |-> 0, min_vertex_separation |-> 0,
      min_edge_vertex_separation |-> 0, intersection_tolerance |-> 1,
      split_crossing_edges |-> FALSE, simplify_edge_chains |-> FALSE,
      idempotent |-> FALSE, memory_tracker |-> "none" ]

\* A forced vertex that is also the second vertex of the only edge.
ToleranceScenario ==
    [ name |-> "tolerance", options |-> ToleranceOptions,
      edges |-> { << <<0, 0>>, <<4, 0>> >> },
      forced |-> { <<4, 0>> }, labels |-> {}, layers |-> {PolylineLayer},
      predicates |-> {}, reuse |-> FALSE, distinct |-> TRUE, resnap |-> FALSE,
      max_layers |-> 1 ]

\* The identity snap function with snap radius zero and edge splitting.
SplitOptions ==
    [ snap_radius |-> 0, grid |-> 0, min_vertex_separation |-> 0,
      min_edge_vertex_separation |-> 0, intersection_tolerance |-> 1,
      split_crossing_edges |-> TRUE, simplify_edge_chains |-> FALSE,
      idempotent |-> TRUE, memory_tracker |-> "limited" ]

\* Two edges that cross at (1, 1) and an edge that crosses neither.
SplitScenario ==
    [ name |-> "split", options |-> SplitOptions,
      edges |-> { << <<0, 0>>, <<2, 2>> >>, << <<0, 2>>, <<2, 0>> >>,
                  << <<3, 0>>, <<3, 2>> >> },
      forced |-> {}, labels |-> {}, layers |-> {PolylineLayer},
      predicates |-> {}, reuse |-> FALSE, distinct |-> TRUE, resnap |-> FALSE,
      max_layers |-> 1 ]

\* The identity snap function with snap radius 2 (minimum vertex separation
\* 2, minimum edge-vertex separation 1, all stored squared), idempotent()
\* false, and edge chain simplification.
SimplifyOptions ==
    [ snap_radius |-> 4, grid |-> 0, min_vertex_separation |-> 4,
      min_edge_vertex_separation |-> 1, intersection_tolerance |-> 0,
      split_crossing_edges |-> FALSE, simplify_edge_chains |-> TRUE,
      idempotent |-> FALSE, memory_tracker |-> "none" ]

\* A chain of two edges that is nearly straight, and an edge from the vertex
\* in the middle that is shorter than the vertex separation; the vertex in
\* the middle may be forced, and the edges may be spread over two layers.
SimplifyScenario ==
    [ name |-> "simplify", options |-> SimplifyOptions,
      edges |-> { << <<0, 0>>, <<4, 1>> >>, << <<4, 1>>, <<8, 0>> >>,
                  << <<4, 1>>, <<5, 1>> >> },
      forced |-> { <<4, 1>> }, labels |-> {}, layers |-> {PolylineLayer},
      predicates |-> {}, reuse |-> FALSE, distinct |-> FALSE, resnap |-> FALSE,
      max_layers |-> MaxLayers ]

\* The options of ToleranceOptions with edge chain simplification.
TolerantSimplifyOptions ==
    [ snap_radius |-> 0, grid |-> 0, min_vertex_separation |-> 0,
      min_edge_vertex_separation |-> 0, intersection_tolerance |-> 1,
      split_crossing_edges |-> FALSE, simplify_edge_chains |-> TRUE,
      idempotent |-> FALSE, memory_tracker |-> "none" ]

\* A straight chain of two edges whose middle vertex may be forced, and an
\* edge away from it.
ForcedChainScenario ==
    [ name |-> "forced chain", options |-> TolerantSimplifyOptions,
      edges |-> { << <<0, 0>>, <<4, 0>> >>, << <<4, 0>>, <<8, 0>> >>,
                  << <<0, 5>>, <<0, 6>> >> },
      forced |-> { <<4, 0>> }, labels |-> {}, layers |-> {PolylineLayer},
      predicates |-> {}, reuse |-> FALSE, distinct |-> TRUE, resnap |-> FALSE,
      max_layers |-> 1 ]

Scenarios ==
    { LabelScenario, LayerScenario, TrackerScenario, CoarseScenario,
      OrderScenario, CrossingScenario, ForcedScenario, SeparationScenario,
      ToleranceScenario, SplitScenario, SimplifyScenario, ForcedChainScenario }

\* ------------------------------------------------------------ construction
\* What is remembered of a Build: per layer its input edges and its output
\* edges (as pairs of points, in the order in which a graph lists edges), the
\* forced vertices, the sites, and whether the tracker stayed in order.
NoBuild ==
    [ inputs |-> <<>>, outputs |-> <<>>, forced |-> {}, sites |-> {},
      complete |-> FALSE ]

\* No function of the predicate layer is being called.
NoCall == [ fn |-> "none", args |-> <<>>, done |-> TRUE, result |-> 0 ]

BuilderInit ==
    /\ scenario \in Scenarios
    /\ options_ = scenario.options
    /\ tracker_ = "ok"
    /\ input_vertices_ = <<>>
    /\ input_edges_ = <<>>
    /\ layers_ = <<>>
    /\ layer_options_ = <<>>
    /\ layer_begins_ = <<>>
    /\ layer_is_full_polygon_predicates_ = <<>>
    /\ label_set_ids_ = <<>>
    /\ label_set_lexicon_ = <<>>
    /\ label_set_ = <<>>
    /\ label_set_id_ = EmptySetId
    /\ label_set_modified_ = FALSE
    /\ sites_ = <<>>
    /\ num_forced_sites_ = 0
    /\ edge_sites_ = <<>>
    /\ snapping_needed_ = FALSE
    /\ error_ = "OK"
    /\ edges_to_resnap = {}
    /\ edges_to_snap = {}
    /\ pc = "idle"
    /\ next_id = 0
    /\ layer_edges = <<>>
    /\ site_vertices = <<>>
    /\ input_edge_id_set_lexicon = <<>>
    /\ graphs = <<>>
    /\ returned = TRUE
    /\ num_builds = 0
    /\ num_label_ops = 0
    /\ fresh = FreshBuilderLabels
    /\ prev = NoBuild
    /\ resnapping = FALSE
    /\ forced_vertices = {}
    /\ tick = FALSE

\* The methods GetIntersection can end with (kUseSimpleMethod and
\* kUseLongDoubleInIntersection are false).
Methods == {"STABLE", "EXACT"}

\* The tally pointer with the array it points to once one is installed.
Tally(installed) == [ installed |-> installed, count |-> [m \in Methods |-> 0] ]

\* No tally array is installed and no thread is calling GetIntersection.
NoThreads == intersection_method_tally_ = Tally(FALSE) /\ threads = <<>>

Init == BuilderInit /\ call = NoCall /\ NoThreads

\* ------------------------------------------------------------ memory tracker
\* What a tracker checkpoint may answer: a tracker without limit never fails,
\* one with a limit may be exceeded at any checkpoint, and an error sticks.
TallyOutcomes ==
    IF tracker_ = "error" THEN {"error"}
    ELSE IF options_.memory_tracker = "limited" THEN {"ok", "error"}
    ELSE {"ok"}

\* --------------------------------------------------------- variable groups
inputVars == << input_vertices_, input_edges_ >>

layerVars == << layers_, layer_options_, layer_begins_,
                layer_is_full_polygon_predicates_ >>

labelVars == << label_set_ids_, label_set_lexicon_, label_set_, label_set_id_,
                label_set_modified_, fresh >>

siteVars == << sites_, num_forced_sites_, edge_sites_, snapping_needed_ >>

passVars == << edges_to_resnap, edges_to_snap, next_id >>

buildVars == << layer_edges, site_vertices, input_edge_id_set_lexicon, graphs, returned, num_builds >>

ghostVars == << prev, resnapping, forced_vertices >>

fixedVars == << options_, call, intersection_method_tally_, threads, scenario >>

\* Assigns the label members from a record of them.
SetLabels(ls) ==
    /\ label_set_' = ls.label_set_
    /\ label_set_modified_' = ls.label_set_modified_
    /\ label_set_id_' = ls.label_set_id_
    /\ label_set_ids_' = ls.label_set_ids_
    /\ label_set_lexicon_' = ls.label_set_lexicon_

\* ------------------------------------------------------------ client calls
\* The client calls the builder between builds, for as many builds as the
\* scenario has.
ClientMayCall ==
    /\ pc = "idle"
    /\ num_builds < MaxBuilds
    /\ num_builds = 0 \/ scenario.reuse

\* StartLayer installing the predicate that reports an error.
DefaultUnspecifiedPredicate == "IsFullPolygonUnspecified"

\* The predicate StartLayer gives a layer until the client replaces it.
DefaultIsFullPolygonPredicate == "IsFullPolygon(false)"

StartLayer(layer) ==
    /\ ClientMayCall
    /\ ~resnapping
    /\ Len(layers_) < Min2(MaxLayers, scenario.max_layers)
    /\ layer_options_' = PushBack(layer_options_, layer.graph_options)
    /\ layer_begins_' = PushBack(layer_begins_, Len(input_edges_))
    /\ layer_is_full_polygon_predicates_' =
           PushBack(layer_is_full_polygon_predicates_, DefaultIsFullPolygonPredicate)
    /\ layers_' = PushBack(layers_, layer)
    /\ UNCHANGED << inputVars, labelVars, siteVars, passVars, buildVars,
                    fixedVars, tick, tracker_, error_, pc, num_label_ops, ghostVars >>

\* AddVertex: the vertices after the call; the id returned is the last one.
AddVertex(vertices, v) ==
    IF vertices = <<>> \/ v # Back(vertices) THEN PushBack(vertices, v) ELSE vertices

\* AddEdge when no tracker checkpoint fails.  st has the fields
\* input_vertices_, input_edges_, labels and fresh; discard says whether the
\* current layer discards degenerate edges.
AddEdgeTo(st, v0, v1, discard) ==
    IF v0 = v1 /\ discard THEN st
    ELSE LET with_v0 == AddVertex(st.input_vertices_, v0)
             with_v1 == AddVertex(with_v0, v1)
             edges   == PushBack(st.input_edges_,
                                 << Len(with_v0) - 1, Len(with_v1) - 1 >>)
         IN  [ input_vertices_ |-> with_v1,
               input_edges_    |-> edges,
               labels          |-> AttachLabels(st.labels, Len(edges)),
               fresh           |-> WithCurrentLabels(
                                       AttachLabels(st.fresh, Len(edges)),
                                       st.labels.label_set_) ]

\* The input members and label members as one record.
InputState ==
    [ input_vertices_ |-> input_vertices_, input_edges_ |-> input_edges_,
      labels |-> Labels, fresh |-> fresh ]

SetInputState(st) ==
    /\ input_vertices_' = st.input_vertices_
    /\ input_edges_' = st.input_edges_
    /\ SetLabels(st.labels)
    /\ fresh' = st.fresh

\* The input edges begin..end-1 as pairs of points.
InputEdgePoints(begin, end) ==
    { << At(input_vertices_, At(input_edges_, e)[1]),
         At(input_vertices_, At(input_edges_, e)[2]) >> : e \in begin..(end - 1) }

\* fail_at = 0 when no tracker checkpoint fails, otherwise the checkpoint (the
\* first AddVertex, the second AddVertex, the edge vector) that fails.
AddEdge(v0, v1, fail_at) ==
    /\ ClientMayCall
    /\ ~resnapping
    /\ layers_ # <<>>
    /\ Len(input_edges_) < MaxEdges
    /\ scenario.distinct => <<v0, v1>> \notin InputEdgePoints(0, Len(input_edges_))
    /\ IF v0 = v1 /\ Back(layer_options_).degenerate_edges = "DISCARD"
       THEN fail_at = 0 /\ UNCHANGED << inputVars, labelVars, tracker_ >>
       ELSE IF tracker_ = "error"
       THEN fail_at = 0 /\ UNCHANGED << inputVars, labelVars, tracker_ >>
       ELSE IF fail_at # 0
       THEN /\ options_.memory_tracker = "limited"
            /\ fail_at = 1 => AddVertex(input_vertices_, v0) # input_vertices_
            /\ fail_at = 2 => AddVertex(AddVertex(input_vertices_, v0), v1)
                                 # AddVertex(input_vertices_, v0)
            /\ tracker_' = "error"
            /\ input_vertices_' =
                   IF fail_at = 1 THEN input_vertices_
                   ELSE IF fail_at = 2 THEN AddVertex(input_vertices_, v0)
                   ELSE AddVertex(AddVertex(input_vertices_, v0), v1)
            /\ UNCHANGED << input_edges_, labelVars >>
       ELSE /\ SetInputState(AddEdgeTo(InputState, v0, v1, FALSE))
            /\ UNCHANGED tracker_
    /\ UNCHANGED << layerVars, siteVars, passVars, buildVars, fixedVars, tick,
                    error_, pc, num_label_ops, ghostVars >>

\* The loop of AddShape over the edges of the shape from edge k on.
RECURSIVE AddShapeEdges(_, _, _, _)
AddShapeEdges(st, shape, k, discard) ==
    IF k > Len(shape) THEN st
    ELSE AddShapeEdges(AddEdgeTo(st, shape[k][1], shape[k][2], discard),
                       shape, k + 1, discard)

\* The edges of all layers of the previous output, layer after layer.
RECURSIVE Concat(_)
Concat(seqs) == IF seqs = <<>> THEN <<>> ELSE Head(seqs) \o Concat(Tail(seqs))

\* AddShape of the shape made of the previous Build's output edges, as the
\* whole input of the next Build.
AddShape ==
    /\ ClientMayCall
    /\ scenario.resnap
    /\ ~resnapping
    /\ prev.complete /\ Concat(prev.outputs) # <<>>
    /\ Len(layers_) = 1 /\ input_edges_ = <<>> /\ sites_ = <<>>
    /\ num_label_ops = 0
    /\ Len(Concat(prev.outputs)) <= MaxShapeEdges
    /\ resnapping' = TRUE
    /\ SetInputState(AddShapeEdges(InputState, Concat(prev.outputs), 1,
                                   Back(layer_options_).degenerate_edges = "DISCARD"))
    /\ UNCHANGED << layerVars, siteVars, passVars, buildVars, fixedVars, tick,
                    tracker_, error_, pc, num_label_ops, prev, forced_vertices >>

ForceVertex(vertex, outcome) ==
    /\ ClientMayCall
    /\ ~resnapping
    /\ Len(sites_) < MaxForced
    /\ outcome \in TallyOutcomes
    /\ tracker_' = outcome
    /\ sites_' = IF outcome = "ok" THEN PushBack(sites_, vertex) ELSE sites_
    /\ forced_vertices' = forced_vertices \cup {vertex}
    /\ UNCHANGED << inputVars, layerVars, labelVars, num_forced_sites_,
                    edge_sites_, snapping_needed_, passVars, buildVars,
                    fixedVars, tick, error_, pc, num_label_ops, prev, resnapping >>

AddIsFullPolygonPredicate(predicate) ==
    /\ ClientMayCall
    /\ layers_ # <<>>
    /\ layer_is_full_polygon_predicates_' =
           SetBack(layer_is_full_polygon_predicates_, predicate)
    /\ UNCHANGED << inputVars, layers_, layer_options_, layer_begins_,
                    labelVars, siteVars, passVars, buildVars, fixedVars, tick,
                    tracker_, error_, pc, num_label_ops, ghostVars >>

\* One of clear_labels, push_label, pop_label, set_label.
LabelCall(Op(_)) ==
    /\ ClientMayCall
    /\ ~resnapping
    /\ num_label_ops < MaxLabelOps
    /\ num_label_ops' = num_label_ops + 1
    /\ SetLabels(Op(Labels))
    /\ fresh' = Op(fresh)
    /\ UNCHANGED << inputVars, layerVars, siteVars, passVars, buildVars,
                    fixedVars, tick, tracker_, error_, pc, ghostVars >>

ClearLabels == LabelCall(clear_labels)

PushLabel(label) == LET Op(ls) == push_label(ls, label) IN LabelCall(Op)

PopLabel == label_set_ # <<>> /\ LabelCall(pop_label)

SetLabel(label) == LET Op(ls) == set_label(ls, label) IN LabelCall(Op)

\* -------------------------------------------------------------------- Build
\* Build up to the call of ChooseSites.
Build ==
    /\ ClientMayCall
    /\ num_builds' = num_builds + 1
    /\ error_' = "OK"
    /\ layer_begins_' = PushBack(layer_begins_, Len(input_edges_))
    /\ snapping_needed_' =
           (snapping_needed_ \/ (snapping_requested_ /\ ~options_.idempotent))
    /\ graphs' = <<>>
    /\ pc' = "ChooseSites"
    /\ UNCHANGED << inputVars, layers_, layer_options_,
                    layer_is_full_polygon_predicates_, labelVars, sites_,
                    num_forced_sites_, edge_sites_, passVars, layer_edges,
                    site_vertices, input_edge_id_set_lexicon, returned,
                    fixedVars, tick, tracker_, num_label_ops, ghostVars >>

\* The edges AddExtraSites snaps next and the position after them: pass 0
\* takes the input edges in order, every later pass the edges of the re-snap
\* set; AddExtraSites returns when a pass leaves the set empty.
AfterCheckEdge(id, left, resnap) ==
    IF id < Len(input_edges_) \/ left # {}
    THEN [pc |-> "AddExtraSites", next_id |-> id, edges_to_snap |-> left,
          edges_to_resnap |-> resnap]
    ELSE IF resnap # {}
    THEN [pc |-> "AddExtraSites", next_id |-> id, edges_to_snap |-> resnap,
          edges_to_resnap |-> {}]
    ELSE [pc |-> "BuildLayers", next_id |-> id, edges_to_snap |-> {},
          edges_to_resnap |-> {}]

SetPass(p) ==
    /\ pc' = p.pc
    /\ next_id' = p.next_id
    /\ edges_to_snap' = p.edges_to_snap
    /\ edges_to_resnap' = p.edges_to_resnap

\* ChooseSites up to the first CheckEdge of AddExtraSites, or all of it when
\* no edge needs snapping.
\* Whether ChooseSites begins with AddEdgeCrossings.
SplitsCrossingEdges ==
    options_.split_crossing_edges /\ tracker_ = "ok" /\ input_vertices_ # <<>>

\* ChooseSites up to the return of AddEdgeCrossings.
AddEdgeCrossings(outcome) ==
    /\ tick' = ~tick
    /\ pc = "ChooseSites"
    /\ SplitsCrossingEdges
    /\ outcome \in TallyOutcomes
    /\ tracker_' = outcome
    /\ IF outcome = "error"
       THEN /\ pc' = "BuildLayers"
            /\ UNCHANGED << input_vertices_, snapping_needed_ >>
       ELSE LET st == EdgeCrossings(input_vertices_, input_edges_, snapping_needed_)
            IN  /\ input_vertices_' = st.input_vertices_
                /\ snapping_needed_' = st.snapping_needed_
                /\ pc' = "ChooseInitialSites"
    /\ UNCHANGED << input_edges_, sites_, num_forced_sites_, edge_sites_, passVars,
                    error_, layerVars, labelVars, buildVars, fixedVars,
                    num_label_ops, ghostVars >>

ChooseSites(outcome) ==
    /\ tick' = ~tick
    /\ \/ pc = "ChooseSites" /\ ~SplitsCrossingEdges
       \/ pc = "ChooseInitialSites"
    /\ IF tracker_ # "ok" \/ input_vertices_ = <<>>
       THEN /\ outcome = tracker_
            /\ pc' = "BuildLayers"
            /\ UNCHANGED << inputVars, siteVars, passVars, tracker_, error_ >>
       ELSE /\ outcome \in TallyOutcomes
            /\ tracker_' = outcome
            /\ IF outcome = "error"
               THEN /\ pc' = "BuildLayers"
                    /\ UNCHANGED << inputVars, siteVars, passVars, error_ >>
               ELSE
                 LET forced  == AddForcedSites(sites_)
                     initial == IF snapping_requested_
                                THEN ChooseInitialSites(
                                         [ sites_           |-> forced,
                                           snapping_needed_ |-> snapping_needed_,
                                           error_           |-> error_ ])
                                ELSE [ sites_           |-> sites_,
                                       snapping_needed_ |-> snapping_needed_,
                                       error_           |-> error_ ]
                     collect == IF snapping_requested_
                                THEN CollectSiteEdges(initial)
                                ELSE [ edge_sites_      |-> edge_sites_,
                                       snapping_needed_ |-> snapping_needed_ ]
                     all     == AllVerticesAsSites
                 IN  /\ num_forced_sites_' = IF snapping_requested_ THEN Len(forced)
                                             ELSE num_forced_sites_
                     /\ error_' = initial.error_
                     /\ snapping_needed_' = collect.snapping_needed_
                     /\ edge_sites_' = collect.edge_sites_
                     /\ IF collect.snapping_needed_
                        THEN /\ sites_' = initial.sites_
                             /\ SetPass(AfterCheckEdge(0, {}, {}))
                             /\ UNCHANGED inputVars
                        ELSE /\ sites_' = all.sites_
                             /\ input_vertices_' = all.sites_
                             /\ input_edges_' =
                                    [ k \in 1..Len(input_edges_) |->
                                        << At(all.vmap, input_edges_[k][1]),
                                           At(all.vmap, input_edges_[k][2]) >> ]
                             /\ pc' = "BuildLayers"
                             /\ UNCHANGED passVars
    /\ UNCHANGED << layerVars, labelVars, buildVars, fixedVars, num_label_ops, ghostVars >>

\* One CheckEdge of AddExtraSites for input edge e, followed by the loop
\* control up to the next CheckEdge.
CheckEdgeStep(e, id, left, outcome) ==
    /\ tick' = ~tick
    /\ Len(sites_) < MaxSites
    /\ outcome \in TallyOutcomes
    /\ tracker_' = outcome
    /\ IF outcome = "error"
       THEN /\ pc' = "BuildLayers"
            /\ UNCHANGED << sites_, edge_sites_, error_, passVars >>
       ELSE LET st == CheckEdge([ sites_          |-> sites_,
                                  edge_sites_     |-> edge_sites_,
                                  edges_to_resnap |-> edges_to_resnap,
                                  error_          |-> error_ ], e)
            IN  /\ sites_' = st.sites_
                /\ edge_sites_' = st.edge_sites_
                /\ error_' = st.error_
                /\ SetPass(AfterCheckEdge(id, left, st.edges_to_resnap))
    /\ UNCHANGED << inputVars, layerVars, labelVars, num_forced_sites_,
                    snapping_needed_, buildVars, fixedVars, num_label_ops, ghostVars >>

\* Pass 0 of AddExtraSites: every input edge, in order.
CheckEdgeFirstPass(outcome) ==
    /\ pc = "AddExtraSites"
    /\ next_id < Len(input_edges_)
    /\ CheckEdgeStep(next_id, next_id + 1, {}, outcome)

\* A later pass: the edges of the copied re-snap set, in the order in which
\* the hash set happens to iterate.
CheckEdgeResnap(e, outcome) ==
    /\ pc = "AddExtraSites"
    /\ next_id = Len(input_edges_)
    /\ e \in edges_to_snap
    /\ CheckEdgeStep(e, next_id, edges_to_snap \ {e}, outcome)

\* BuildLayers up to the loop that hands the graphs to the layers.
BuildLayers(outcome) ==
    /\ tick' = ~tick
    /\ pc = "BuildLayers"
    /\ IF tracker_ # "ok"
       THEN /\ outcome = tracker_
            /\ pc' = "Reset"
            /\ UNCHANGED << tracker_, layer_edges, site_vertices,
                            input_edge_id_set_lexicon, edge_sites_, next_id >>
       ELSE /\ outcome \in TallyOutcomes
            /\ tracker_' = outcome
            /\ IF outcome = "error"
               THEN /\ pc' = "Reset"
                    /\ UNCHANGED << layer_edges, site_vertices,
                                    input_edge_id_set_lexicon, edge_sites_, next_id >>
               ELSE /\ \E built \in {BuildLayerEdges} :
                          /\ layer_edges' = built.layer_edges
                          /\ input_edge_id_set_lexicon' = built.lexicon
                    /\ site_vertices' = SiteVertices
                    /\ edge_sites_' = <<>>
                    /\ next_id' = 0
                    /\ pc' = IF layers_ = <<>> THEN "Reset" ELSE "Layers"
    /\ UNCHANGED << inputVars, layerVars, labelVars, sites_, num_forced_sites_,
                    snapping_needed_, edges_to_resnap, edges_to_snap, graphs,
                    returned, num_builds, fixedVars, error_, num_label_ops, ghostVars >>

\* The graph handed to layer i.
Graph(i) ==
    [ options                  |-> At(layer_options_, i),
      vertices                 |-> sites_,
      edges                    |-> At(layer_edges, i),
      input_edge_id_set_lexicon |-> input_edge_id_set_lexicon,
      label_set_ids            |-> label_set_ids_,
      label_set_lexicon        |-> label_set_lexicon_,
      is_full_polygon_predicate |-> At(layer_is_full_polygon_predicates_, i) ]

\* A predicate call that clears the error when it does not report one.
IsFullPolygonErrorClearing(predicate, error) ==
    IF predicate = "IsFullPolygonUnspecified"
    THEN "BUILDER_IS_FULL_PREDICATE_NOT_SPECIFIED" ELSE "OK"

\* The error after the graph's predicate was called: IsFullPolygonUnspecified
\* reports an error, IsFullPolygon(is_full) does not.
IsFullPolygonError(predicate, error) ==
    IF predicate = "IsFullPolygonUnspecified"
    THEN "BUILDER_IS_FULL_PREDICATE_NOT_SPECIFIED" ELSE error

\* A layer loop that skips every second layer.
NextLayerSkipping(i) == i + 2

\* The layer BuildLayers builds after layer i.
NextLayer(i) == i + 1

\* One iteration of the loop of BuildLayers: layers_[i]->Build(graph, error_).
LayerBuild ==
    /\ tick' = ~tick
    /\ pc = "Layers"
    /\ next_id < Len(layers_)
    /\ graphs' = PushBack(graphs, [layer |-> next_id, graph |-> Graph(next_id)])
    /\ error_' = IF At(layers_, next_id).asks_is_full_polygon
                 THEN IsFullPolygonError(Graph(next_id).is_full_polygon_predicate, error_)
                 ELSE error_
    /\ next_id' = NextLayer(next_id)
    /\ pc' = IF NextLayer(next_id) < Len(layers_) THEN "Layers" ELSE "Reset"
    /\ UNCHANGED << inputVars, layerVars, labelVars, siteVars, edges_to_resnap,
                    edges_to_snap, layer_edges, site_vertices, input_edge_id_set_lexicon, returned, num_builds, fixedVars,
                    tracker_, num_label_ops, ghostVars >>

\* A Build that reports only the tracker's error.
FinalErrorTrackerOnly(tracker, error) ==
    IF tracker # "ok" THEN "RESOURCE_EXHAUSTED" ELSE "OK"

\* The error Build leaves in *error_ after Reset().
FinalError(tracker, error) == IF tracker # "ok" THEN "RESOURCE_EXHAUSTED" ELSE error

\* A Build that returns true whatever the error.
BuildResultAlwaysTrue(error) == TRUE

\* What Build returns: error_->ok().
BuildResult(error) == error = "OK"

\* The label members after Reset().
ResetLabels(ls) ==
    [ls EXCEPT !.label_set_ids_ = <<>>, !.label_set_lexicon_ = <<>>,
               !.label_set_ = <<>>, !.label_set_modified_ = FALSE]

\* The edges handed to layer i (0-based) as pairs of points.
OutputEdgePoints(g) ==
    [ k \in 1..Len(g.edges) |->
        << At(g.vertices, g.edges[k].edge[1]), At(g.vertices, g.edges[k].edge[2]) >> ]

\* The order in which a graph lists its edges: by origin, then destination.
EdgeLess(e, f) == PointLess(e[1], f[1]) \/ (e[1] = f[1] /\ PointLess(e[2], f[2]))

\* The input edges begin..end-1 as pairs of points, in the order given.
InputEdgeSeq(begin, end) ==
    [ k \in 1..(end - begin) |->
        << At(input_vertices_, At(input_edges_, begin + k - 1)[1]),
           At(input_vertices_, At(input_edges_, begin + k - 1)[2]) >> ]

\* The end points of a sequence of edges.
EndPoints(edges) == UNION { {edges[k][1], edges[k][2]} : k \in 1..Len(edges) }

\* What is remembered of the Build that is about to return.
ThisBuild ==
    [ inputs   |-> [ i \in 1..Len(layers_) |->
                       SortSeq(InputEdgeSeq(layer_begins_[i], layer_begins_[i + 1]),
                               EdgeLess) ],
      outputs  |-> [ k \in 1..Len(graphs) |->
                       SortSeq(OutputEdgePoints(graphs[k].graph), EdgeLess) ],
      forced   |-> forced_vertices,
      sites    |-> Range(sites_),
      complete |-> tracker_ = "ok" ]

\* Reset() and the return of Build.
BuildReturn ==
    /\ tick' = ~tick
    /\ pc = "Reset"
    /\ input_vertices_' = <<>>
    /\ input_edges_' = <<>>
    /\ layers_' = <<>>
    /\ layer_options_' = <<>>
    /\ layer_begins_' = <<>>
    /\ layer_is_full_polygon_predicates_' = <<>>
    /\ SetLabels(ResetLabels(Labels))
    /\ fresh' = FreshBuilderLabels
    /\ sites_' = <<>>
    /\ edge_sites_' = <<>>
    /\ snapping_needed_' = FALSE
    /\ error_' = FinalError(tracker_, error_)
    /\ returned' = BuildResult(FinalError(tracker_, error_))
    /\ pc' = "idle"
    /\ layer_edges' = <<>>
    /\ site_vertices' = <<>>
    /\ input_edge_id_set_lexicon' = <<>>
    /\ prev' = ThisBuild
    /\ resnapping' = FALSE
    /\ forced_vertices' = {}
    /\ UNCHANGED << num_forced_sites_, passVars, graphs, num_builds, fixedVars,
                    tracker_, num_label_ops >>

\* ------------------------------------------------------------ specification
Next ==
    \/ \E layer \in scenario.layers : StartLayer(layer)
    \/ \E edge \in scenario.edges, fail_at \in 0..3 : AddEdge(edge[1], edge[2], fail_at)
    \/ \E vertex \in scenario.forced, outcome \in {"ok", "error"} :
           ForceVertex(vertex, outcome)
    \/ \E predicate \in scenario.predicates : AddIsFullPolygonPredicate(predicate)
    \/ scenario.labels # {} /\ ClearLabels
    \/ \E label \in scenario.labels : PushLabel(label)
    \/ scenario.labels # {} /\ PopLabel
    \/ \E label \in scenario.labels : SetLabel(label)
    \/ AddShape
    \/ Build
    \/ \E outcome \in {"ok", "error"} : AddEdgeCrossings(outcome)
    \/ \E outcome \in {"ok", "error"} : ChooseSites(outcome)
    \/ \E outcome \in {"ok", "error"} : CheckEdgeFirstPass(outcome)
    \/ \E e \in edges_to_snap, outcome \in {"ok", "error"} : CheckEdgeResnap(e, outcome)
    \/ \E outcome \in {"ok", "error"} : BuildLayers(outcome)
    \/ LayerBuild
    \/ BuildReturn

Spec == Init /\ [][Next]_vars

\* Build is one sequential call: once started, it takes its next step.
\* Whether Build can take its next step.
BuildStepEnabled ==
    \/ pc \in {"ChooseSites", "ChooseInitialSites", "BuildLayers", "Reset"}
    \/ /\ pc = "AddExtraSites" /\ Len(sites_) < MaxSites
       /\ (next_id < Len(input_edges_) \/ edges_to_snap # {})
    \/ pc = "Layers" /\ next_id < Len(layers_)

\* A step of Build, told by the tick that every step of Build flips.
BuildAdvances == BuildStepEnabled /\ tick' = ~tick

FairSpec == Spec /\ WF_tick(BuildAdvances)

\* ------------------------------------------------- the predicate layer
\* The functions of s2predicates.cc and s2edge_crossings.cc are pure: a call
\* is a record of the function, its arguments and, once it has returned, its
\* result.  PredSpec draws one call from bounded sets of arguments and
\* applies the function to them; the builder is left as constructed.
builderVars == << options_, tracker_, input_vertices_, input_edges_, layers_,
                  layer_options_, layer_begins_,
                  layer_is_full_polygon_predicates_, label_set_ids_,
                  label_set_lexicon_, label_set_, label_set_id_,
                  label_set_modified_, sites_, num_forced_sites_, edge_sites_,
                  snapping_needed_, error_, edges_to_resnap, edges_to_snap, pc,
                  next_id, layer_edges, site_vertices, input_edge_id_set_lexicon, graphs, returned, num_builds,
                  num_label_ops, fresh, prev, resnapping, forced_vertices,
                  tick, scenario >>

threadVars == << intersection_method_tally_, threads >>

\* S2Point values that need not have unit length: the exact stages work on
\* the coordinates as given, so proportional points are distinct points.
Points3 ==
    { p \in (-MaxCoord..MaxCoord) \X (-MaxCoord..MaxCoord) \X (-MaxCoord..MaxCoord) :
        p # <<0, 0, 0>> }

Pending(fn, args) == [ fn |-> fn, args |-> args, done |-> FALSE, result |-> 0 ]

Returns(c, result) == [c EXCEPT !.done = TRUE, !.result = result]

SignCalls(points) ==
    { Pending("Sign", <<a, b, c>>) : a \in points, b \in points, c \in points }

CompareDistancesCalls(points) ==
    { Pending("CompareDistances", <<x, a, b>>) :
        x \in points, a \in points, b \in points }

\* Points of the plane, for the predicates on sites and edges.
Points2 == (0..(MaxCoord + 1)) \X (0..(MaxCoord + 1))

\* The arguments GetVoronoiSiteExclusion accepts: a is closer to x0 than b,
\* and both sites are within r of the edge.
VoronoiArgs(points) ==
    { v \in points \X points \X points \X points \X (1..(4 * MaxCoord)) :
        /\ CompareDistances(v[3], v[1], v[2]) < 0
        /\ CompareEdgeDistance(v[1], v[3], v[4], v[5]) <= 0
        /\ CompareEdgeDistance(v[2], v[3], v[4], v[5]) <= 0 }

GetVoronoiSiteExclusionCalls(points) ==
    { Pending("GetVoronoiSiteExclusion", <<v, stages>>) :
        v \in VoronoiArgs(points), stages \in BOOLEAN \X BOOLEAN }

RobustCrossProdCalls(points) ==
    { Pending("RobustCrossProd", <<a, b, stages>>) :
        a \in points, b \in points, stages \in BOOLEAN \X BOOLEAN }

\* Vertices for GetIntersection: one hemisphere and its boundary.
UpperPoints3 == { p \in Points3 : p[3] >= 0 }

\* The endpoints of an edge are never antipodal.
Antipodal(a, b) == CrossProd3(a, b) = Zero3 /\ DotProd3(a, b) < 0

CrossingEdges(points) ==
    { e \in points \X points \X points \X points :
        /\ ~Antipodal(e[1], e[2]) /\ ~Antipodal(e[3], e[4])
        /\ CrossingSign(e[1], e[2], e[3], e[4]) > 0 }

GetIntersectionCalls(points) ==
    { Pending("GetIntersection", <<e, in_bounds>>) :
        e \in CrossingEdges(points), in_bounds \in BOOLEAN }

\* Points for EdgeCircumcenterSign, some of them proportional to each other
\* and not equal.
CircumcenterPoints(points) ==
    { p \in points : p[1] >= 0 /\ p[2] >= 0 /\ p[3] >= 0 }
        \cup { Scale3(2, p) : p \in { q \in points : q[1] >= 0 /\ q[2] >= 0 /\ q[3] = 0 } }

EdgeCircumcenterSignCalls(points) ==
    { Pending("EdgeCircumcenterSign", <<x0, x1, a, b, c>>) :
        x0 \in { p \in points : p[3] = 0 }, x1 \in { p \in points : p[3] = 0 },
        a \in points, b \in points, c \in points }

PredCall ==
    \/ call \in EdgeCircumcenterSignCalls(CircumcenterPoints(Points3))
    \/ call \in GetIntersectionCalls(UpperPoints3)
    \/ call \in RobustCrossProdCalls(Points3)
    \/ call \in SignCalls(Points3)
    \/ call \in CompareDistancesCalls(Points3)
    \/ call \in GetVoronoiSiteExclusionCalls(Points2)

PredInit ==
    /\ BuilderInit
    /\ scenario = LabelScenario
    /\ NoThreads
    /\ PredCall

CallSign ==
    /\ call.fn = "Sign" /\ ~call.done
    /\ call' = Returns(call, Sign(call.args[1], call.args[2], call.args[3]))
    /\ UNCHANGED << builderVars, threadVars >>

CallCompareDistances ==
    /\ call.fn = "CompareDistances" /\ ~call.done
    /\ call' = Returns(call, CompareDistances(call.args[1], call.args[2], call.args[3]))
    /\ UNCHANGED << builderVars, threadVars >>

VoronoiCall(v, stages) ==
    VoronoiSiteExclusionCascade(v[1], v[2], v[3], v[4], v[5], stages)

CallGetVoronoiSiteExclusion ==
    /\ call.fn = "GetVoronoiSiteExclusion" /\ ~call.done
    /\ call' = Returns(call, VoronoiCall(call.args[1], call.args[2]))
    /\ UNCHANGED << builderVars, threadVars >>

CallRobustCrossProd ==
    /\ call.fn = "RobustCrossProd" /\ ~call.done
    /\ call' = Returns(call, RobustCrossProd(call.args[1], call.args[2], call.args[3]))
    /\ UNCHANGED << builderVars, threadVars >>

IntersectionOf(e, in_bounds) == GetIntersection(e[1], e[2], e[3], e[4], in_bounds)

CallGetIntersection ==
    /\ call.fn = "GetIntersection" /\ ~call.done
    /\ call' = Returns(call, IntersectionOf(call.args[1], call.args[2]))
    /\ UNCHANGED << builderVars, threadVars >>

\* EdgeCircumcenterSign and the results of its exact and symbolic stages.
CircumcenterSigns(x0, x1, a, b, c) ==
    [ sign     |-> EdgeCircumcenterSign(x0, x1, a, b, c),
      exact    |-> ExactEdgeCircumcenterSign(x0, x1, a, b, c, Sign(a, b, c)),
      symbolic |-> SymbolicEdgeCircumcenterSign(x0, x1, a, b, c) ]

CallEdgeCircumcenterSign ==
    /\ call.fn = "EdgeCircumcenterSign" /\ ~call.done
    /\ call' = Returns(call, CircumcenterSigns(call.args[1], call.args[2], call.args[3],
                                               call.args[4], call.args[5]))
    /\ UNCHANGED << builderVars, threadVars >>

PredNext ==
    \/ CallEdgeCircumcenterSign
    \/ CallGetIntersection
    \/ CallRobustCrossProd
    \/ CallSign
    \/ CallCompareDistances
    \/ CallGetVoronoiSiteExclusion

PredSpec == PredInit /\ [][PredNext]_vars

\* ------------------------------------------------- concurrent callers
\* Threads call S2::GetIntersection without synchronization.  The body of
\* the function up to the choice of the method reads only its arguments and
\* is one step; the update of the tally is a test of the global pointer, a
\* load of the counter and a store of the counter plus one.
IdleThread ==
    [ pc |-> "idle", calls |-> 0, result |-> NoIntersection, loaded |-> 0 ]

\* The calls the threads make: a crossing decided by the stable method or
\* not, and a pair of collinear edges.
ThreadArgs ==
    { << << <<-1, -1, 0>>, <<-1, 0, 1>>, <<-1, -1, 1>>, <<-1, 0, 0>> >>, TRUE >>,
      << << <<-1, -1, 0>>, <<-1, 0, 1>>, <<-1, -1, 1>>, <<-1, 0, 0>> >>, FALSE >>,
      << << <<-1, -1, 0>>, <<-1, 1, 0>>, <<-1, 0, 0>>, <<0, 1, 0>> >>, FALSE >> }

ThreadInit ==
    /\ BuilderInit
    /\ scenario = LabelScenario
    /\ call = NoCall
    /\ intersection_method_tally_ \in {Tally(FALSE), Tally(TRUE)}
    /\ threads = [t \in 1..NumThreads |-> IdleThread]

\* Lines 722-781: the method is chosen and the result computed.
ThreadCall(t) ==
    /\ threads[t].pc = "idle" /\ threads[t].calls < MaxCalls
    /\ \E args \in ThreadArgs :
         threads' = [threads EXCEPT ![t].pc = "test",
                                    ![t].result = IntersectionOf(args[1], args[2])]
    /\ UNCHANGED << builderVars, call, intersection_method_tally_ >>

\* Line 783: if (intersection_method_tally_)
ThreadTestTally(t) ==
    /\ threads[t].pc = "test"
    /\ threads' = [threads EXCEPT ![t].pc =
                      IF intersection_method_tally_.installed THEN "load" ELSE "return"]
    /\ UNCHANGED << builderVars, call, intersection_method_tally_ >>

\* Line 784, first half: the counter of the method is read.
ThreadLoadTally(t) ==
    /\ threads[t].pc = "load"
    /\ threads' = [threads EXCEPT ![t].pc = "store",
                                   ![t].loaded = intersection_method_tally_.count[threads[t].result.method]]
    /\ UNCHANGED << builderVars, call, intersection_method_tally_ >>

\* Line 784, second half: the counter is written.
ThreadStoreTally(t) ==
    /\ threads[t].pc = "store"
    /\ intersection_method_tally_' =
          [intersection_method_tally_ EXCEPT
              !.count[threads[t].result.method] = threads[t].loaded + 1]
    /\ threads' = [threads EXCEPT ![t].pc = "return"]
    /\ UNCHANGED << builderVars, call >>

\* Line 793: return result
ThreadReturn(t) ==
    /\ threads[t].pc = "return"
    /\ threads' = [threads EXCEPT ![t].pc = "idle", ![t].calls = @ + 1]
    /\ UNCHANGED << builderVars, call, intersection_method_tally_ >>

ThreadNext ==
    \/ \E t \in 1..NumThreads : ThreadCall(t)
    \/ \E t \in 1..NumThreads : ThreadTestTally(t)
    \/ \E t \in 1..NumThreads : ThreadLoadTally(t)
    \/ \E t \in 1..NumThreads : ThreadStoreTally(t)
    \/ \E t \in 1..NumThreads : ThreadReturn(t)

ThreadSpec == ThreadInit /\ [][ThreadNext]_vars

\* ------------------------------------------------------------------ claims
ConfigurationErrors ==
    {"BUILDER_SNAP_RADIUS_TOO_SMALL", "BUILDER_IS_FULL_PREDICATE_NOT_SPECIFIED"}

\* The layers that received a graph in this Build, in the order of the calls.
LayersBuilt == [k \in 1..Len(graphs) |-> graphs[k].layer]

\* Build has left the loop of BuildLayers and is about to Reset and return.
BuildLayersDone == pc = "Reset"

\* C1: in a Build in which the memory tracker reports no error, every layer
\* given to StartLayer has its Build called exactly once, in the order of the
\* StartLayer calls, whatever the input is.
C1_LayersBuiltOnceInOrder ==
    (BuildLayersDone /\ tracker_ = "ok") =>
        LayersBuilt = [k \in 1..Len(layers_) |-> k - 1]

\* Two layers, edges only in the first one, both built.
C1_Witness ==
    /\ BuildLayersDone /\ tracker_ = "ok"
    /\ Len(layers_) = 2 /\ LayersBuilt = <<0, 1>>
    /\ layer_begins_ = <<0, 1, 1>>

\* C2 as stated: when Build reports a configuration error, no layer has
\* received a graph.
C2_NoOutputOnConfigurationError ==
    (BuildLayersDone /\ error_ \in ConfigurationErrors) => graphs = <<>>

\* C2 amended: a configuration error does not stop the delivery; with the
\* tracker in order every layer still receives its graph, and Build reports
\* the error (it returns false).
C2_ConfigurationErrorStillDelivers ==
    (BuildLayersDone /\ error_ \in ConfigurationErrors /\ tracker_ = "ok") =>
        /\ LayersBuilt = [k \in 1..Len(layers_) |-> k - 1]
        /\ ~BuildResult(FinalError(tracker_, error_))

\* The snap function moved a vertex too far and the layer received a graph.
C2_Witness ==
    /\ BuildLayersDone /\ tracker_ = "ok"
    /\ error_ = "BUILDER_SNAP_RADIUS_TOO_SMALL"
    /\ Len(graphs) = 1 /\ graphs[1].graph.edges # <<>>

PredicateConsulted ==
    pc = "Layers" /\ At(layers_, next_id).asks_is_full_polygon

ConsultedPredicate == At(layer_is_full_polygon_predicates_, next_id)

\* C4 as stated: when the predicate of a layer for which
\* AddIsFullPolygonPredicate was never called is consulted, the error
\* BUILDER_IS_FULL_PREDICATE_NOT_SPECIFIED is reported.
C4_MissingPredicateIsAnError ==
    [][(PredicateConsulted /\ ConsultedPredicate \notin scenario.predicates)
         => error_' = "BUILDER_IS_FULL_PREDICATE_NOT_SPECIFIED"]_vars

\* C4 amended: the error is reported when the consulted predicate is
\* IsFullPolygonUnspecified, which a layer has only after the client
\* installed it; a layer without any AddIsFullPolygonPredicate call has
\* IsFullPolygon(false), which reports nothing and leaves the error as it was.
C4_OnlyUnspecifiedPredicateIsAnError ==
    [][PredicateConsulted
         => (/\ ConsultedPredicate = "IsFullPolygonUnspecified"
                  => error_' = "BUILDER_IS_FULL_PREDICATE_NOT_SPECIFIED"
             /\ ConsultedPredicate \notin scenario.predicates
                  => (ConsultedPredicate = "IsFullPolygon(false)" /\ error_' = error_))]_vars

\* Build returned true for a polygon layer that never got a predicate.
C4_Witness ==
    /\ pc = "idle" /\ num_builds = 1 /\ returned
    /\ Len(graphs) = 1
    /\ graphs[1].graph.is_full_polygon_predicate = "IsFullPolygon(false)"
    /\ graphs[1].graph.options.degenerate_edges = "DISCARD"

\* C5: when the tracker has reported its limit exceeded before the delivery
\* to the layers starts, no layer's Build is called, and Build returns false
\* with the tracker's error in the error object.
C5_TrackerErrorAbortsBuild ==
    /\ (BuildLayersDone /\ tracker_ = "error") => graphs = <<>>
    /\ (pc = "idle" /\ num_builds > 0 /\ tracker_ = "error") =>
           (graphs = <<>> /\ ~returned /\ error_ = "RESOURCE_EXHAUSTED")

\* Build returned after the tracker failed, with layers and edges present.
C5_Witness ==
    /\ pc = "idle" /\ num_builds = 1 /\ tracker_ = "error"
    /\ ~returned /\ error_ = "RESOURCE_EXHAUSTED"
    /\ Len(prev.inputs) = 1 /\ prev.inputs[1] # <<>>

\* C6: after Build has returned, the builder behaves as a freshly
\* initialised one: the labels every input edge carries into the graphs are
\* those a fresh builder attaches for the same calls.
C6_LabelsAsOnFreshBuilder ==
    \A e \in 0..(Len(input_edges_) - 1) :
        EdgeLabels(label_set_ids_, label_set_lexicon_, e)
            = EdgeLabels(fresh.label_set_ids_, fresh.label_set_lexicon_, e)

Resnapped ==
    /\ pc = "Reset" /\ resnapping /\ tracker_ = "ok" /\ Len(graphs) = 1

\* The second output has the vertices and edges of its input.
SameAsPreviousOutput ==
    /\ ~snapping_needed_
    /\ SortSeq(OutputEdgePoints(graphs[1].graph), EdgeLess)
           = SortSeq(Concat(prev.outputs), EdgeLess)
    /\ Range(sites_) = EndPoints(Concat(prev.outputs))

C10_OutputIndependentOfOrder ==
    (/\ pc = "Reset" /\ num_builds = 2 /\ ~resnapping
     /\ tracker_ = "ok" /\ prev.complete
     /\ ThisBuild.inputs = prev.inputs /\ ThisBuild.forced = prev.forced)
    => (ThisBuild.outputs = prev.outputs /\ ThisBuild.sites = prev.sites)

\* The step of ChooseSites that ends site selection without any need to snap.
NoSnappingNeeded ==
    /\ \/ pc = "ChooseSites" /\ ~SplitsCrossingEdges
       \/ pc = "ChooseInitialSites"
    /\ input_vertices_ # <<>>
    /\ tracker_' = "ok" /\ ~snapping_needed_'

\* C11: when site selection ends with snapping_needed_ false, snapping is
\* the identity: the two vertex ids of every input edge are ids of sites
\* equal to the edge's original endpoints, SnapEdge gives every edge the
\* chain of these two sites, and no repair pass runs.
C11_NoSnappingIsIdentity ==
    [][NoSnappingNeeded =>
         /\ pc' = "BuildLayers" /\ edges_to_resnap' = {} /\ edges_to_snap' = {}
         /\ input_vertices_' = sites_'
         /\ \A e \in 0..(Len(input_edges_) - 1) :
                LET old   == At(input_edges_, e)
                    new   == At(input_edges_', e)
                    chain == SnapEdge(input_vertices_', input_edges_', sites_',
                                      edge_sites_', snapping_needed_', e)
                IN  /\ new[1] \in 0..(Len(sites_') - 1)
                    /\ new[2] \in 0..(Len(sites_') - 1)
                    /\ At(sites_', new[1]) = At(input_vertices_, old[1])
                    /\ At(sites_', new[2]) = At(input_vertices_, old[2])
                    /\ chain = << new[1], new[2] >>]_vars

\* No snapping was needed and the edges were renumbered: the degenerate edge
\* added first now has the id of the second site.
C11_Witness ==
    /\ pc = "BuildLayers" /\ tracker_ = "ok" /\ ~snapping_needed_
    /\ input_edges_ = << <<1, 1>>, <<0, 1>> >>
    /\ sites_ = << <<0, 0>>, <<4, 0>> >>

\* C20: the label set attached to each input edge is the set of labels that
\* was current when AddEdge was called for it (the empty set for the edges
\* added before the first label call), in a first Build and in later ones.
C20_EdgeLabelsAreCurrentLabels ==
    \A e \in 0..(Len(input_edges_) - 1) :
        EdgeLabels(label_set_ids_, label_set_lexicon_, e) = At(fresh.current, e)

\* C12: for distinct points a, b, c the orientation predicate is invariant
\* under a cyclic shift of its arguments and changes sign when two of them
\* are exchanged, also when the determinant is zero and the answer comes
\* from the symbolic perturbation.
SignReturned == call.fn = "Sign" /\ call.done

Distinct3(a, b, c) == a # b /\ b # c /\ c # a

ExactDeterminant(a, b, c) == DotProd3(Vec3(a), CrossProd3(Vec3(b), Vec3(c)))

SignIsAlternating(a, b, c, sign) ==
    /\ sign = Sign(b, c, a)
    /\ sign = -Sign(b, a, c)
    /\ sign = -Sign(a, c, b)

C12_SignIsAlternating ==
    (SignReturned /\ Distinct3(call.args[1], call.args[2], call.args[3]))
        => SignIsAlternating(call.args[1], call.args[2], call.args[3], call.result)

C12_Witness ==
    /\ SignReturned
    /\ Distinct3(call.args[1], call.args[2], call.args[3])
    /\ ExactDeterminant(call.args[1], call.args[2], call.args[3]) = 0
    /\ call.args[1] = <<1, 1, 0>> /\ call.args[2] = <<-1, -1, 0>>
    /\ call.result # 0

\* C13: the orientation predicate with perturbation returns zero exactly
\* when two of its arguments are the same point; for three distinct points,
\* however degenerate, it returns +1 or -1.
C13_SignZeroIffRepeatedPoint ==
    SignReturned =>
        /\ call.result \in {-1, 0, 1}
        /\ (call.result = 0) <=> ~Distinct3(call.args[1], call.args[2], call.args[3])

C13_Witness ==
    /\ SignReturned
    /\ call.args = << <<1, -1, 0>>, <<0, 0, 1>>, <<-1, 1, 0>> >>
    /\ ExactDeterminant(call.args[1], call.args[2], call.args[3]) = 0
    /\ call.result \in {-1, 1}

\* C14: CompareDistances(x, a, a) is 0 and CompareDistances(x, a, b) is the
\* opposite of CompareDistances(x, b, a), also when the two distances are
\* equal and the answer comes from the symbolic stage.
CompareDistancesReturned == call.fn = "CompareDistances" /\ call.done

C14_CompareDistancesAntisymmetric ==
    CompareDistancesReturned =>
        /\ call.args[2] = call.args[3] => call.result = 0
        /\ call.result = -CompareDistances(call.args[1], call.args[3], call.args[2])

C14_Witness ==
    /\ CompareDistancesReturned
    /\ call.args[2] # call.args[3]
    /\ ExactCompareDistances(call.args[1], call.args[2], call.args[3]) = 0
    /\ call.result = 1

\* C15: GetVoronoiSiteExclusion never returns UNCERTAIN: whichever of the
\* early distance test, the triage stages and the exact stage decides, the
\* value returned is FIRST, SECOND or NEITHER.
VoronoiReturned == call.fn = "GetVoronoiSiteExclusion" /\ call.done

C15_ExclusionIsNeverUncertain ==
    VoronoiReturned => call.result \in {"FIRST", "SECOND", "NEITHER"}

C15_Witness ==
    /\ VoronoiReturned
    /\ call.args[2] = <<FALSE, FALSE>>
    /\ CompareDistances(call.args[1][4], call.args[1][1], call.args[1][2]) >= 0
    /\ call.result = "FIRST"

\* C17: RobustCrossProd(a, b) is a non-zero vector orthogonal to a and to b,
\* also when a and b are proportional and the symbolic stage answers, and
\* when a = b.
RobustCrossProdReturned == call.fn = "RobustCrossProd" /\ call.done

C17_RobustCrossProdIsOrthogonal ==
    RobustCrossProdReturned =>
        /\ call.result # Zero3
        /\ DotProd3(call.result, call.args[1]) = 0
        /\ DotProd3(call.result, call.args[2]) = 0

C17_Witness ==
    /\ RobustCrossProdReturned
    /\ call.args[1] = <<1, -1, 1>> /\ call.args[2] = <<-1, 1, -1>>
    /\ CrossProd3(call.args[1], call.args[2]) = Zero3
    /\ call.result = <<-1, -1, 0>>

\* C18: the point GetIntersection returns for two crossing edges is the same
\* when the two edges are exchanged and when the endpoints of either edge
\* are reversed, whichever method produces it.
GetIntersectionReturned == call.fn = "GetIntersection" /\ call.done

SameDirection(u, v) == CrossProd3(u, v) = Zero3 /\ DotProd3(u, v) > 0

SameIntersection(r, t) ==
    /\ r.method = t.method
    /\ r.normal_edge = t.normal_edge
    /\ r.closest = t.closest
    /\ SameDirection(r.x, t.x)

OrderIndependent(e, in_bounds, r) ==
    /\ SameIntersection(r, GetIntersection(e[3], e[4], e[1], e[2], in_bounds))
    /\ SameIntersection(r, GetIntersection(e[2], e[1], e[3], e[4], in_bounds))
    /\ SameIntersection(r, GetIntersection(e[1], e[2], e[4], e[3], in_bounds))

C18_IntersectionIsOrderIndependent ==
    GetIntersectionReturned => OrderIndependent(call.args[1], call.args[2], call.result)

C18_Witness ==
    /\ GetIntersectionReturned
    /\ call.result.method = "STABLE"
    /\ DotProd3(Sub3(call.args[1][2], call.args[1][1]), Sub3(call.args[1][2], call.args[1][1]))
         = DotProd3(Sub3(call.args[1][4], call.args[1][3]), Sub3(call.args[1][4], call.args[1][3]))
    /\ CompareEdges(call.args[1][1], call.args[1][2], call.args[1][3], call.args[1][4])

\* The collinear tie-break of the exact method is reached as well.
CollinearCrossingReturned ==
    /\ GetIntersectionReturned
    /\ call.result.method = "EXACT"
    /\ CrossProd3(CrossProd3(call.args[1][1], call.args[1][2]),
                  CrossProd3(call.args[1][3], call.args[1][4])) = Zero3

\* C16: the functions of the predicate and intersection layer read and
\* write no shared mutable state, so concurrent calls without
\* synchronization have no data race: no two threads are ever about to
\* access the same shared object, one of them writing it.
AccessesTally(t, m) ==
    threads[t].pc \in {"load", "store"} /\ threads[t].result.method = m

WritesTally(t, m) == threads[t].pc = "store" /\ threads[t].result.method = m

DataRace ==
    \E t \in DOMAIN threads, u \in DOMAIN threads, m \in Methods :
        t # u /\ WritesTally(t, m) /\ AccessesTally(u, m)

C16_NoDataRace == ~DataRace


\* C21: when the repair phase adds a site, every input edge whose
\* nearby-site list changes is queued for re-snapping, a queued edge leaves
\* the queue only by being snapped and checked, and AddExtraSites returns
\* without a tracker error only when checking any edge once more would add
\* no site: the last check of every edge saw its final nearby-site list.
InputEdgeIds == 0..(Len(input_edges_) - 1)

Queued(resnap, snap) == resnap \cup snap

RepairState(sites, esites) ==
    [ sites_ |-> sites, edge_sites_ |-> esites, edges_to_resnap |-> {},
      error_ |-> "OK" ]

\* Checking edge e in the state given would add no site.
CheckedSinceLastChange(sites, esites, e) ==
    CheckEdge(RepairState(sites, esites), e).sites_ = sites

C21_RepairStep ==
    (pc = "AddExtraSites" /\ tracker_' = "ok") =>
        /\ \A e \in InputEdgeIds :
              At(edge_sites_', e) # At(edge_sites_, e)
                  => e \in Queued(edges_to_resnap', edges_to_snap')
        /\ Cardinality(Queued(edges_to_resnap, edges_to_snap)
                         \ Queued(edges_to_resnap', edges_to_snap')) <= 1
        /\ pc' = "BuildLayers" =>
              /\ Queued(edges_to_resnap', edges_to_snap') = {}
              /\ \A e \in InputEdgeIds :
                    CheckedSinceLastChange(sites_', edge_sites_', e)

ExtraSites ==
    { i \in 1..Len(sites_) :
        /\ sites_[i] \notin forced_vertices
        /\ \A v \in Range(input_vertices_) : sites_[i] # SnapSite(v) }

SitesChosen ==
    /\ pc = "AddExtraSites" /\ next_id = 0 /\ tracker_ = "ok"
    /\ site_snap_radius_ca_ # 0

SnappedVertices == { SnapSite(v) : v \in Range(input_vertices_) }

SiteWithin(site, sign) ==
    \E i \in 1..Len(sites_) :
        CompareDistance(site, sites_[i], min_site_separation_ca_) \in sign

SiteSelectionDone ==
    /\ pc \in {"AddExtraSites", "BuildLayers"} /\ tracker_ = "ok"
    /\ input_vertices_ # <<>>

C24_SitesAreDistinct ==
    SiteSelectionDone =>
        \A i \in 1..Len(sites_) : \A j \in 1..Len(sites_) :
            sites_[i] = sites_[j] => i = j


\* C28: the snapped chain of an edge is a subsequence of the edge's
\* nearby-site list, also after AddExtraSite has inserted a site in the
\* list, and the parallel scan of MaybeAddExtraSites indexes the chain, the
\* list and sites_ within bounds only, the skip loop after AddExtraSite
\* included.
RECURSIVE IsSubsequenceFrom(_, _, _, _)
IsSubsequenceFrom(chain, i, list, j) ==
    \/ i >= Len(chain)
    \/ /\ j < Len(list)
       /\ IsSubsequenceFrom(chain, IF At(list, j) = At(chain, i) THEN i + 1 ELSE i,
                            list, j + 1)

\* The scan of MaybeAddExtraSites from chain position i and list position
\* j: whether every index it uses is in bounds, and how often it skips
\* ahead after adding a site.
ScanEnd(in_bounds) == [in_bounds |-> in_bounds, skips |-> 0]

Skipped(trace, in_bounds) ==
    [in_bounds |-> trace.in_bounds /\ in_bounds, skips |-> trace.skips + 1]

RECURSIVE ScanTrace(_, _, _, _, _)
ScanTrace(st, edge_id, chain, i, j) ==
    LET a0            == At(input_vertices_, At(input_edges_, edge_id)[1])
        a1            == At(input_vertices_, At(input_edges_, edge_id)[2])
        nearby_sites  == At(st.edge_sites_, edge_id)
        id            == At(nearby_sites, j)
        site_to_avoid == At(st.sites_, id)
        v0            == At(st.sites_, At(chain, i - 1))
        v1            == At(st.sites_, At(chain, i))
        after         == WithSeparationSite(st, site_to_avoid, v0, v1, a0, a1)
        list          == At(after.edge_sites_, edge_id)
    IN  IF j >= Len(nearby_sites) THEN ScanEnd(TRUE)
        ELSE IF ~(i < Len(chain) /\ id < Len(st.sites_)
                  /\ IsSubsequenceFrom(chain, i, nearby_sites, j))
        THEN ScanEnd(FALSE)
        ELSE IF id = At(chain, i)
        THEN IF i + 1 = Len(chain) THEN ScanEnd(TRUE)
             ELSE ScanTrace(st, edge_id, chain, i + 1, j + 1)
        ELSE IF i = 0
        THEN ScanTrace(st, edge_id, chain, i, j + 1)
        ELSE IF AddSeparationSite(id, site_to_avoid, v0, v1, a0, a1)
        THEN Skipped(ScanTrace(after, edge_id, chain, i,
                               SkipToChainSite(list, j, At(chain, i)) + 1),
                     \E k \in j..(Len(list) - 2) : At(list, k + 1) = At(chain, i))
        ELSE ScanTrace(st, edge_id, chain, i, j + 1)

\* The edges AddExtraSites may check next, and the scan of such an edge.
EdgesToCheck ==
    IF pc # "AddExtraSites" THEN {}
    ELSE IF next_id < Len(input_edges_) THEN {next_id}
    ELSE edges_to_snap

SnappedChain(e) ==
    SnapEdge(input_vertices_, input_edges_, sites_, edge_sites_, snapping_needed_, e)

ScanOf(e) == ScanTrace(RepairState(sites_, edge_sites_), e, SnappedChain(e), 0, 0)

C28_ScanStaysInBounds ==
    \A e \in EdgesToCheck :
        /\ IsSubsequenceFrom(SnappedChain(e), 0, At(edge_sites_, e), 0)
        /\ SnappedChain(e) # <<>> => ScanOf(e).in_bounds

\* An edge is about to be checked whose scan adds a site and skips ahead.
C28_Witness ==
    \E e \in EdgesToCheck :
        /\ Len(SnappedChain(e)) >= 2
        /\ ScanOf(e).in_bounds
        /\ ScanOf(e).skips > 0


\* C26: every input edge belongs to exactly the layer that was open when
\* it was added; during Build the layer boundaries are non-decreasing, the
\* ranges [layer_begins_[i], layer_begins_[i+1]) are disjoint and cover
\* all input edge ids, and the graph of layer i is built from exactly the
\* edges of range i.
LayerRange(begins, i) == begins[i]..(begins[i + 1] - 1)

\* The input edges that the given edges stand for, their id sets being
\* looked up in the given lexicon.
InputEdgeIdsOf(edges, lexicon) ==
    UNION { LexiconIdSet(lexicon, edges[k].input_edge_id) : k \in 1..Len(edges) }

\* An edge added by this step is at or behind the beginning of the last
\* layer, and the boundaries of the earlier layers stay as they are.
AddedToOpenLayer ==
    (pc = "idle" /\ pc' = "idle" /\ Len(input_edges_') > Len(input_edges_)) =>
        /\ layers_' # <<>>
        /\ Len(layer_begins_') = Len(layers_')
        /\ Len(layer_begins_') >= Len(layer_begins_)
        /\ SubSeq(layer_begins_', 1, Len(layer_begins_)) = layer_begins_
        /\ \A e \in Len(input_edges_)..(Len(input_edges_') - 1) :
              Back(layer_begins_') <= e

\* Build closes the last layer at the number of input edges.
LayerRangesPartition ==
    pc # "idle" =>
        /\ Len(layer_begins_) = Len(layers_) + 1
        /\ layer_begins_[1] = 0
        /\ Back(layer_begins_) = Len(input_edges_)
        /\ \A i \in 1..Len(layers_) : layer_begins_[i] <= layer_begins_[i + 1]
        /\ \A e \in InputEdgeIds :
              Cardinality({ i \in 1..Len(layers_) : e \in LayerRange(layer_begins_, i) }) = 1
        /\ \A k \in 1..Len(graphs) :
              InputEdgeIdsOf(graphs[k].graph.edges,
                             graphs[k].graph.input_edge_id_set_lexicon)
                  \subseteq LayerRange(layer_begins_, graphs[k].layer + 1)

\* BuildLayers gives layer i the snapped edges of the input edges of range i.
LayerEdgesFromRange ==
    (pc = "BuildLayers" /\ pc' = "Layers") =>
        \A i \in 1..Len(layers_) :
            InputEdgeIdsOf(layer_edges'[i], input_edge_id_set_lexicon')
              = { e \in LayerRange(layer_begins_, i) :
                    SnappedEdges(e, layer_options_[i]) # <<>> }

C26_LayerStep == AddedToOpenLayer /\ LayerRangesPartition' /\ LayerEdgesFromRange

C26_LayersPartitionInputEdges == [][C26_LayerStep]_vars

\* Two layers with an edge each have received their graphs.
C26_Witness ==
    /\ pc = "Reset" /\ tracker_ = "ok" /\ Len(graphs) = 2
    /\ layer_begins_ = <<0, 1, 2>>
    /\ InputEdgeIdsOf(graphs[1].graph.edges,
                             graphs[1].graph.input_edge_id_set_lexicon) = {0}
    /\ InputEdgeIdsOf(graphs[2].graph.edges,
                             graphs[2].graph.input_edge_id_set_lexicon) = {1}


\* C29: for arguments whose exact circumcenter sign is zero,
\* SymbolicEdgeCircumcenterSign returns zero only if X0 = X1, A = B, B = C
\* or C = A, so that EdgeCircumcenterSign is non-zero for every input with
\* X0 # X1 and A, B, C pairwise distinct.
EdgeCircumcenterSignReturned == call.fn = "EdgeCircumcenterSign" /\ call.done

RepeatedArgument(args) ==
    args[1] = args[2] \/ args[3] = args[4] \/ args[4] = args[5] \/ args[5] = args[3]

C29_CircumcenterSignZeroIffRepeated ==
    EdgeCircumcenterSignReturned =>
        /\ (call.result.exact = 0 /\ call.result.symbolic = 0)
              => RepeatedArgument(call.args)
        /\ ~RepeatedArgument(call.args) => call.result.sign # 0


\* C25 (as stated): when split_crossing_edges is configured, the
\* edge-splitting phase leaves snapping_needed_ true, and the rest of the
\* Build does not take the identity fast path.
EdgesWereSplit ==
    /\ options_.split_crossing_edges /\ tracker_ = "ok" /\ input_vertices_ # <<>>
    /\ pc \in {"ChooseInitialSites", "AddExtraSites", "BuildLayers", "Layers", "Reset"}

C25_SplittingForcesSnapping == EdgesWereSplit => snapping_needed_

\* C25 (amended): the edge-splitting phase sets snapping_needed_ exactly
\* when it finds a pair of input edges that cross at an interior point and
\* otherwise leaves the flag as it was; once the flag is set, the rest of
\* the Build snaps and repairs.
C25_SplitStep ==
    /\ (pc = "ChooseSites" /\ pc' = "ChooseInitialSites") =>
          snapping_needed_' =
              (snapping_needed_ \/ CrossingEdgePairs(input_vertices_, input_edges_) # {})
    /\ (pc = "ChooseInitialSites" /\ snapping_needed_ /\ tracker_' = "ok") =>
          (pc' = "AddExtraSites" /\ snapping_needed_')

C25_CrossingsForceSnapping == [][C25_SplitStep]_vars

\* An intersection point was added as an input vertex and the edges are
\* being snapped.
C25_Witness ==
    /\ pc = "AddExtraSites" /\ options_.split_crossing_edges /\ snapping_needed_
    /\ \E v \in 0..(Len(input_vertices_) - 1) :
          \A e \in InputEdgeIds : v \notin Range(At(input_edges_, e))


\* ---------------------------------------------------------------------- C23
\* BuildLayerEdges fills site_vertices for a simplification.
SiteVerticesFilled == pc = "BuildLayers" /\ site_vertices' # <<>>

\* Input vertex v is recorded under site id by this step.
RecordedUnder(v, id) == v \in Range(At(site_vertices', id))

\* C23: when edge chains are simplified, site_vertices records, for every
\* input edge with a non-empty snapped chain, the first vertex under the
\* first site of the chain and the second vertex under its last site, also
\* when the chain is a single site.
C23_SiteVerticesStep ==
    SiteVerticesFilled =>
        \A e \in InputEdgeIds :
            SnappedChain(e) # <<>> =>
                /\ RecordedUnder(At(input_edges_, e)[1], SnappedChain(e)[1])
                /\ RecordedUnder(At(input_edges_, e)[2], Back(SnappedChain(e)))

C23_SiteVerticesHoldEveryInputVertex == [][C23_SiteVerticesStep]_vars


\* ---------------------------------------------------------------------- C30
\* The snapped edges of every layer as SimplifyEdgeChains receives them.
SnappedLayerEdges ==
    [ i \in 1..Len(layers_) |->
        AddSnappedEdges(layer_begins_[i], layer_begins_[i + 1], layer_options_[i]) ]

\* This step of BuildLayers simplifies the edge chains of a build that has
\* input vertices (without them ChooseSites returns at once and there is no
\* edge to simplify).
SimplifyStep ==
    pc = "BuildLayers" /\ pc' = "Layers" /\ Simplify /\ input_vertices_ # <<>>

\* The sites that are end points of edges of the given layers.
EndSites(edges) ==
    UNION { UNION { { edges[i][k].edge[1], edges[i][k].edge[2] } :
                      k \in 1..Len(edges[i]) } : i \in 1..Len(edges) }

\* The site ids that is_forced accepts.
ForcedSites == 0..(num_forced_sites_ - 1)

\* C30: in a build that simplifies edge chains the sites below
\* num_forced_sites_ are exactly the vertices given to ForceVertex for this
\* build, none of them is an interior vertex of an edge chain, and each one
\* that snapped edges pass through is still an end point of output edges
\* after the simplification.
C30_ForcedStep ==
    SimplifyStep =>
        /\ { At(sites_, v) : v \in ForcedSites } = forced_vertices
        /\ \A v \in ForcedSites :
               /\ ~IsInterior(MergeLayerEdges(SnappedLayerEdges), v)
               /\ v \in EndSites(SnappedLayerEdges) => v \in EndSites(layer_edges')

MergedGraph == MergeLayerEdges(SnappedLayerEdges)

SimplifierRun == Run(MergedGraph, SiteVertices)

\* C27: edge chain simplification marks every edge of the merged graph as
\* used exactly once, gives every layer output edges that carry together
\* the input edge ids that its edges carried before, and gives no output edge
\* an input edge id of another layer.
C27_SimplifyStep ==
    (pc = "BuildLayers" /\ pc' = "Layers" /\ Simplify) =>
        /\ Len(SimplifierRun.consumed) = Len(MergedGraph)
        /\ Range(SimplifierRun.consumed) = 1..Len(MergedGraph)
        /\ SimplifierRun.used = 1..Len(MergedGraph)
        /\ \A i \in 1..Len(layers_) :
               /\ InputEdgeIdsOf(layer_edges'[i], input_edge_id_set_lexicon')
                     = InputEdgeIdsOf(SnappedLayerEdges[i], <<>>)
               /\ \A k \in 1..Len(layer_edges'[i]) :
                      LexiconIdSet(input_edge_id_set_lexicon',
                                   layer_edges'[i][k].input_edge_id)
                          \subseteq LayerRange(layer_begins_, i)

C27_SimplificationConservesProvenance == [][C27_SimplifyStep]_vars

\* Two layers have each received one edge that was merged from a chain of
\* two edges and carries the ids of both input edges of its layer.
C27_Witness ==
    /\ pc = "Layers"
    /\ Len(layer_edges) = 2
    /\ \A i \in 1..2 :
           /\ Len(layer_edges[i]) = 1
           /\ LexiconIdSet(input_edge_id_set_lexicon, layer_edges[i][1].input_edge_id)
                 = LayerRange(layer_begins_, i)
           /\ Cardinality(LayerRange(layer_begins_, i)) = 2

====
